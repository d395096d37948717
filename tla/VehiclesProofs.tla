---------------------------- MODULE VehiclesProofs ----------------------------
(***************************************************************************)
(* What holds of both vehicles whatever the files, the set-ups and the     *)
(* order of calls: first the netmap codec and the ECUs on Ethernet, then   *)
(* the ECUs on CAN, the DBC codec they send through and the file's parser. *)
(***************************************************************************)
EXTENDS Vehicles, SequenceTheorems, FiniteSetTheorems, WellFoundedInduction, TLAPS

\* A set of numbers that has 0 and every successor has them all.
LEMMA Induction ==
  ASSUME NEW S, 0 \in S, \A n \in Nat : n \in S => n + 1 \in S
  PROVE  \A n \in Nat : n \in S
<1> DEFINE Out == {n \in Nat : n \notin S}
<1> SUFFICES ASSUME Out # {} PROVE FALSE
  OBVIOUS
<1>1. PICK n \in Out : \A m \in Out : <<m, n>> \notin OpToRel(<, Nat)
  BY NatLessThanWellFounded, WFMin, Zenon
<1>2. \A m \in Out : ~(m < n)
  BY <1>1, Zenon DEF OpToRel
<1>3. n \in Nat /\ n # 0
  BY <1>1
<1>4. n - 1 \in Nat /\ n - 1 < n
  BY <1>3
<1>5. n - 1 \in S
  BY <1>2, <1>4
<1>6. n - 1 + 1 \in S
  BY <1>4, <1>5
<1>7. n \in S
  BY <1>3, <1>6
<1> QED BY <1>1, <1>7

\* The greatest of 1 .. k, and of a set with k among numbers up to k.
LEMMA MaxIs ==
  ASSUME NEW k \in Nat, NEW s \in SUBSET (1 .. k), k \in s
  PROVE  Max(s) = k
<1>1. k \in s /\ \A y \in s : k >= y
  OBVIOUS
<1>2. Max(s) \in s /\ \A y \in s : Max(s) >= y
  BY <1>1, Zenon DEF Max
<1> DEFINE m == Max(s)
<1>3. m \in s /\ m >= k
  BY <1>1, <1>2, Zenon
<1> HIDE DEF m
<1>4. m = k
  BY <1>3
<1> QED BY <1>4 DEF m

\* A set of numbers has a least one.
LEMMA LeastOf ==
  ASSUME NEW S \in SUBSET Nat, S # {}
  PROVE  \E i \in S : \A j \in S : i <= j
<1>1. PICK i \in S : \A j \in S : ~(<<j, i>> \in OpToRel(<, Nat))
  BY NatLessThanWellFounded, WFMin, Zenon
<1>2. \A j \in S : ~(j < i)
  BY <1>1, Zenon DEF OpToRel
<1>3. \A j \in S : i <= j
  BY <1>2
<1> QED BY <1>3

\* The greatest of some numbers up to n is one of them.
LEMMA MaxIn ==
  ASSUME NEW n \in Nat, NEW s \in SUBSET (1 .. n), s # {}
  PROVE  Max(s) \in s
<1> DEFINE below == {d \in Nat : \E y \in s : d = n - y}
<1>1. below \in SUBSET Nat /\ below # {}
  <2>1. PICK y \in s : TRUE
    OBVIOUS
  <2>2. n - y \in Nat
    BY <2>1
  <2> QED BY <2>1, <2>2
<1>2. PICK d \in below : \A e \in below : d <= e
  <2> HIDE DEF below
  <2> QED BY <1>1, LeastOf
<1>4. PICK m \in s : d = n - m
  BY <1>2
<1>5. ASSUME NEW y \in s PROVE m >= y
  <2>1. n - y \in below
    OBVIOUS
  <2> QED BY <1>2, <1>4, <2>1
<1> QED BY <1>5, Zenon DEF Max

\* What a sequence's elements are folded into, one after another, exists when every
\* step stays in one set: as a function of the sets of places that are folded.
Folds(g, first, step, k) ==
  \A s \in SUBSET (1 .. k) :
    g[s] = IF s = {} THEN first ELSE step[<<g[s \ {Max(s)}], Max(s)>>]
Foldable(A, first, step, k) == \E g \in [SUBSET (1 .. k) -> A] : Folds(g, first, step, k)

\* A step over 1 .. n has a function that folds it over every part of 1 .. n.
LEMMA FoldExists ==
  ASSUME NEW n \in Nat, NEW A, NEW first \in A, NEW step \in [A \X (1 .. n) -> A]
  PROVE  Foldable(A, first, step, n)
<1> DEFINE Upto == {k \in Nat : k <= n => Foldable(A, first, step, k)}
<1>1. Foldable(A, first, step, 0)
  <2> DEFINE g == [s \in SUBSET (1 .. 0) |-> first]
  <2>1. 1 .. 0 = {}
    OBVIOUS
  <2>2. g \in [SUBSET (1 .. 0) -> A]
    OBVIOUS
  <2>3. Folds(g, first, step, 0)
    BY <2>1 DEF Folds
  <2> QED BY <2>2, <2>3 DEF Foldable
<1>2. ASSUME NEW k \in Nat, k + 1 <= n, Foldable(A, first, step, k)
      PROVE  Foldable(A, first, step, k + 1)
  <2>1. PICK g \in [SUBSET (1 .. k) -> A] : Folds(g, first, step, k)
    BY <1>2 DEF Foldable
  <2> DEFINE h == [s \in SUBSET (1 .. k + 1) |->
                     IF k + 1 \in s THEN step[<<g[s \ {k + 1}], k + 1>>] ELSE g[s]]
  <2>2. ASSUME NEW s \in SUBSET (1 .. k + 1)
        PROVE  /\ k + 1 \in s => s \ {k + 1} \in SUBSET (1 .. k)
               /\ k + 1 \notin s => s \in SUBSET (1 .. k)
    OBVIOUS
  <2>3. h \in [SUBSET (1 .. k + 1) -> A]
    <3> SUFFICES ASSUME NEW s \in SUBSET (1 .. k + 1) PROVE h[s] \in A
      OBVIOUS
    <3>1. CASE k + 1 \in s
      <4>1. g[s \ {k + 1}] \in A /\ k + 1 \in 1 .. n
        BY <1>2, <2>2, <3>1
      <4> QED BY <3>1, <4>1
    <3>2. CASE k + 1 \notin s
      BY <2>2, <3>2
    <3> QED BY <3>1, <3>2
  <2>4. Folds(h, first, step, k + 1)
    <3> SUFFICES ASSUME NEW s \in SUBSET (1 .. k + 1)
                 PROVE  h[s] = IF s = {} THEN first ELSE step[<<h[s \ {Max(s)}], Max(s)>>]
      BY DEF Folds
    <3>1. CASE k + 1 \in s
      <4>1. Max(s) = k + 1
        BY <3>1, MaxIs
      <4>2. /\ s \ {k + 1} \in SUBSET (1 .. k) /\ s \ {k + 1} \in SUBSET (1 .. k + 1)
            /\ k + 1 \notin s \ {k + 1}
        BY <2>2, <3>1
      <4>3. h[s \ {k + 1}] = g[s \ {k + 1}]
        BY <4>2
      <4> QED BY <3>1, <4>1, <4>3
    <3>2. CASE k + 1 \notin s
      <4>1. s \in SUBSET (1 .. k) /\ h[s] = g[s]
        BY <2>2, <3>2
      <4>2. g[s] = IF s = {} THEN first ELSE step[<<g[s \ {Max(s)}], Max(s)>>]
        BY <2>1, <4>1 DEF Folds
      <4>3. s \ {Max(s)} \in SUBSET (1 .. k + 1) /\ k + 1 \notin s \ {Max(s)}
        BY <3>2, <4>1
      <4>4. h[s \ {Max(s)}] = g[s \ {Max(s)}]
        BY <4>3
      <4> QED BY <4>1, <4>2, <4>4
    <3> QED BY <3>1, <3>2
  <2> HIDE DEF h
  <2> QED BY <2>3, <2>4 DEF Foldable
<1>3. \A k \in Nat : k \in Upto => k + 1 \in Upto
  BY <1>2
<1>4. \A k \in Nat : k \in Upto
  <2>1. 0 \in Upto
    BY <1>1
  <2> HIDE DEF Upto
  <2> QED BY <2>1, <1>3, Induction
<1> QED BY <1>4

\* A function on sets of places that folds them from the greatest on: on the first
\* places it goes step by step.
LEMMA FirstPlaces ==
  ASSUME NEW n \in Nat, NEW k \in 1 .. n
  PROVE  /\ 1 .. k \in SUBSET (1 .. n) /\ 1 .. k # {}
         /\ Max(1 .. k) = k /\ (1 .. k) \ {Max(1 .. k)} = 1 .. k - 1
<1>1. 1 .. k \in SUBSET (1 .. n) /\ k \in 1 .. k /\ 1 .. k \in SUBSET (1 .. k)
  OBVIOUS
<1>2. Max(1 .. k) = k
  BY <1>1, MaxIs
<1>3. (1 .. k) \ {k} = 1 .. k - 1
  OBVIOUS
<1> QED BY <1>1, <1>2, <1>3

\* Append, on a sequence whose elements need not be of one set.
IsList(s, n) == s = [i \in 1 .. n |-> s[i]]
Longer(s, e, n) == [i \in 1 .. n + 1 |-> IF i = n + 1 THEN e ELSE s[i]]

\* What appending to a list of n elements gives.
LEMMA AppendIs ==
  ASSUME NEW n \in Nat, NEW s, IsList(s, n), NEW e
  PROVE  /\ Len(s) = n /\ Append(s, e) = Longer(s, e, n)
         /\ IsList(Append(s, e), n + 1) /\ Len(Append(s, e)) = n + 1
<1> DEFINE S == {s[i] : i \in 1 .. n} \cup {e}
<1>1. s \in [1 .. n -> S]
  BY DEF IsList
<1>2. s \in Seq(S) /\ Len(s) = n
  BY <1>1
<1>3. /\ Append(s, e) \in Seq(S) /\ Len(Append(s, e)) = n + 1
      /\ \A i \in 1 .. n : Append(s, e)[i] = s[i]
      /\ Append(s, e)[n + 1] = e
  BY <1>2, AppendProperties
<1>4. Append(s, e) \in [1 .. n + 1 -> S]
  BY <1>3, LenProperties
<1> DEFINE t == Append(s, e)
<1> HIDE DEF t
<1>5. t = [i \in 1 .. n + 1 |-> IF i = n + 1 THEN e ELSE s[i]]
  <2>1. \A i \in 1 .. n + 1 : t[i] = IF i = n + 1 THEN e ELSE s[i]
    BY <1>3 DEF t
  <2>2. t = [i \in 1 .. n + 1 |-> t[i]]
    BY <1>4 DEF t
  <2> QED BY <2>1, <2>2
<1>6. IsList(Append(s, e), n + 1)
  BY <1>4 DEF IsList
<1> QED BY <1>2, <1>3, <1>5, <1>6 DEF t, Longer

-----------------------------------------------------------------------------
(* The netmap codec: writing the fields one after another.                 *)

Unresolved(message, given) ==
  \E f \in Range(message.fields) :
    f.name \in DOMAIN given /\ Eth!RawOf(f, given[f.name]).result # "ok"
RawIn(field, given) == Eth!RawOf(field, given[field.name]).value
Zeros(message) == [b \in 1 .. message.length |-> 0]

\* What the payload is behind each of the fields.
Chain(c, message, given) ==
  /\ c[0] = Eth!Done(Zeros(message))
  /\ \A k \in 1 .. Len(message.fields) :
       c[k] = Eth!Written(given, c[k - 1], message.fields[k])

\* The two modules' greatest element is the same.
LEMMA EthMax == ASSUME NEW s PROVE Eth!Max(s) = Max(s)
BY Zenon DEF Max, Eth!Max

\* The two modules' set of elements is the same.
LEMMA EthRange == ASSUME NEW s PROVE Eth!Range(s) = Range(s)
BY DEF Range, Eth!Range

Bytes(message, given) ==
  {0} \cup {Eth!RawBytes(f.type, RawIn(f, given))[k] : f \in Range(message.fields), k \in 1 .. 4}
Payloads(message, given) ==
  {Eth!Err} \cup {Eth!Done(p) : p \in [1 .. message.length -> Bytes(message, given)]}

\* A field takes one, two or four bytes (netmap.rs, FieldType::size).
LEMMA SizeIs ==
  ASSUME NEW type
  PROVE  Eth!Size(type) \in {1, 2, 4}
BY DEF Eth!Size

\* Writing a field gives a payload of the message's length, or an error.
LEMMA WrittenStays ==
  ASSUME NEW message, MessageDef(message), NEW given, NEW p \in Payloads(message, given),
         NEW field \in Range(message.fields)
  PROVE  Eth!Written(given, p, field) \in Payloads(message, given)
<1> DEFINE bytes == Eth!RawBytes(field.type, RawIn(field, given))
           end == field.offset + Eth!Size(field.type)
           V == Bytes(message, given)
           w == [b \in 1 .. message.length |->
                   IF field.offset < b /\ b <= end THEN bytes[b - field.offset] ELSE p.value[b]]
<1>1. CASE Eth!Written(given, p, field) = p
  BY <1>1
<1>2. CASE Eth!Written(given, p, field) # p
  <2>1. p.result = "ok" /\ Eth!Written(given, p, field)
                             = Eth!WriteField(field, RawIn(field, given), p.value)
    BY <1>2 DEF Eth!Written, RawIn
  <2>2. PICK q \in [1 .. message.length -> V] : p = Eth!Done(q)
    BY <2>1 DEF Payloads, Eth!Err
  <2>3. p.value = q
    BY <2>2 DEF Eth!Done
  <2>4. /\ field.offset \in Nat /\ Eth!Size(field.type) \in {1, 2, 4} /\ message.length \in Nat
    BY SizeIs DEF MessageDef
  <2>5. w \in [1 .. message.length -> V]
    <3> SUFFICES ASSUME NEW b \in 1 .. message.length
                 PROVE  (IF field.offset < b /\ b <= end THEN bytes[b - field.offset] ELSE q[b]) \in V
      BY <2>3
    <3>1. CASE field.offset < b /\ b <= end
      <4>1. b - field.offset \in 1 .. 4
        BY <2>4, <3>1
      <4>2. bytes[b - field.offset] \in V
        BY <4>1 DEF Bytes
      <4> QED BY <3>1, <4>2
    <3>2. CASE ~(field.offset < b /\ b <= end)
      BY <3>2
    <3> QED BY <3>1, <3>2
  <2>6. Eth!WriteField(field, RawIn(field, given), p.value) \in {Eth!Err, Eth!Done(w)}
    <3>1. DOMAIN p.value = 1 .. message.length
      BY <2>2, <2>3
    <3> QED BY <3>1 DEF Eth!WriteField
  <2> HIDE DEF w
  <2> QED BY <2>1, <2>5, <2>6 DEF Payloads
<1> QED BY <1>1, <1>2

\* The encoder writes the fields one behind the other, from zeros.
LEMMA EncodeChain ==
  ASSUME NEW message, MessageDef(message), NEW given, ~Unresolved(message, given)
  PROVE  \E c : Chain(c, message, given)
                /\ Eth!EncodeFields(message, given) = c[Len(message.fields)]
<1> DEFINE n == Len(message.fields)
           A == Payloads(message, given)
           first == Eth!Done(Zeros(message))
           Iter(h) == [s \in SUBSET (DOMAIN message.fields) |->
                         IF s = {} THEN first
                         ELSE Eth!Written(given, h[s \ {Eth!Max(s)}], message.fields[Eth!Max(s)])]
           f == CHOOSE h : h = Iter(h)
           step == [p \in A \X (1 .. n) |-> Eth!Written(given, p[1], message.fields[p[2]])]
<1>1. /\ n \in Nat /\ DOMAIN message.fields = 1 .. n
      /\ \A k \in 1 .. n : message.fields[k] \in Range(message.fields)
  BY LenProperties DEF MessageDef, Range
<1>2. Eth!EncodeFields(message, given) = f[DOMAIN message.fields]
  BY EthRange DEF Eth!EncodeFields, Unresolved, Eth!FoldLeft, Eth!MapThenFoldSet, Zeros
<1>3. first \in A
  <2>1. Zeros(message) \in [1 .. message.length -> Bytes(message, given)]
    BY DEF Zeros, Bytes
  <2> QED BY <2>1 DEF Payloads
<1>4. step \in [A \X (1 .. n) -> A]
  BY <1>1, WrittenStays
<1>6. PICK g \in [SUBSET (1 .. n) -> A] : Folds(g, first, step, n)
  <2>1. Foldable(A, first, step, n)
    <3> HIDE DEF n, A, first, step
    <3> QED BY <1>1, <1>3, <1>4, FoldExists
  <2> QED BY <2>1 DEF Foldable
<1>7. g = Iter(g)
  <2>1. ASSUME NEW s \in SUBSET (1 .. n), s # {} PROVE g[s] = Iter(g)[s]
    <3> DEFINE m == Max(s)
    <3>1. m \in s /\ m = Eth!Max(s)
      BY <1>1, <2>1, MaxIn, EthMax
    <3>2. g[s] = step[<<g[s \ {m}], m>>]
      BY <1>6, <2>1 DEF Folds
    <3> HIDE DEF m
    <3>3. g[s \ {m}] \in A /\ m \in 1 .. n
      BY <3>1
    <3>4. g[s] = Eth!Written(given, g[s \ {m}], message.fields[m])
      BY <3>2, <3>3
    <3> QED BY <1>1, <2>1, <3>1, <3>4
  <2>2. g[{}] = first
    BY <1>6 DEF Folds
  <2> HIDE DEF first, A
  <2> QED BY <1>1, <2>1, <2>2
<1>8. f = Iter(f)
  BY <1>7
<1> DEFINE c == [k \in 0 .. n |-> f[1 .. k]]
<1>9. Chain(c, message, given)
  <2>1. c[0] = first
    BY <1>1, <1>8
  <2>2. ASSUME NEW k \in 1 .. n
        PROVE  c[k] = Eth!Written(given, c[k - 1], message.fields[k])
    <3>1. /\ 1 .. k \in SUBSET (1 .. n) /\ 1 .. k # {}
          /\ Eth!Max(1 .. k) = k /\ (1 .. k) \ {k} = 1 .. k - 1
      BY <1>1, FirstPlaces, EthMax
    <3>2. f[1 .. k] = Eth!Written(given, f[(1 .. k) \ {Eth!Max(1 .. k)}],
                                  message.fields[Eth!Max(1 .. k)])
      BY <1>1, <1>8, <3>1
    <3>3. k - 1 \in 0 .. n /\ k \in 0 .. n
      BY <1>1
    <3> HIDE DEF f
    <3> QED BY <3>1, <3>2, <3>3
  <2> HIDE DEF c
  <2> QED BY <2>1, <2>2 DEF Chain
<1>10. Eth!EncodeFields(message, given) = c[n]
  <2> HIDE DEF f
  <2> QED BY <1>1, <1>2
<1> HIDE DEF c
<1> QED BY <1>9, <1>10

\* The length of a tuple given as a function.
LEMMA LenIs ==
  ASSUME NEW m \in Nat, NEW V, NEW p \in [1 .. m -> V]
  PROVE  Len(p) = m
<1>1. p \in Seq(V)
  OBVIOUS
<1> QED BY <1>1, LenProperties

FieldEnd(f) == f.offset + Eth!Size(f.type)
FieldFits(f, message) == FieldEnd(f) <= message.length
Apart(f, g) == (f.offset .. FieldEnd(f) - 1) \cap (g.offset .. FieldEnd(g) - 1) = {}

\* What a written field's bytes show.
Carries(payload, f, raw) ==
  \A b \in f.offset + 1 .. FieldEnd(f) : payload[b] = Eth!RawBytes(f.type, raw)[b - f.offset]

\* Writing one field: the others' bytes stay.
LEMMA WriteOne ==
  ASSUME NEW message, MessageDef(message), NEW V, NEW p \in [1 .. message.length -> V],
         NEW f \in Range(message.fields), NEW raw,
         NEW q, q = Eth!WriteField(f, raw, p)
  PROVE  /\ FieldFits(f, message) <=> q.result = "ok"
         /\ q.result = "ok" =>
              /\ q = Eth!Done(q.value)
              /\ DOMAIN q.value = 1 .. message.length
              /\ Carries(q.value, f, raw)
              /\ \A g \in Range(message.fields) : \A r :
                   Apart(f, g) /\ FieldFits(g, message) /\ Carries(p, g, r) => Carries(q.value, g, r)
<1> DEFINE bytes == Eth!RawBytes(f.type, raw)
           w == [b \in DOMAIN p |->
                   IF f.offset < b /\ b <= FieldEnd(f) THEN bytes[b - f.offset] ELSE p[b]]
<1>1. /\ Len(p) = message.length /\ DOMAIN p = 1 .. message.length /\ message.length \in Nat
  BY LenIs DEF MessageDef
<1>2. q = IF FieldEnd(f) > message.length THEN Eth!Err ELSE Eth!Done(w)
  BY <1>1 DEF Eth!WriteField, FieldEnd
<1>3. ASSUME NEW g \in Range(message.fields) PROVE g.offset \in Nat /\ FieldEnd(g) \in Nat
  <2>1. g.offset \in Nat /\ Eth!Size(g.type) \in {1, 2, 4}
    BY SizeIs DEF MessageDef
  <2> QED BY <2>1 DEF FieldEnd
<1>4. FieldFits(f, message) <=> q.result = "ok"
  BY <1>1, <1>2, <1>3 DEF FieldFits, Eth!Done, Eth!Err
<1>5. ASSUME q.result = "ok"
      PROVE  /\ q = Eth!Done(q.value)
             /\ DOMAIN q.value = 1 .. message.length
             /\ Carries(q.value, f, raw)
             /\ \A g \in Range(message.fields) : \A r :
                  Apart(f, g) /\ FieldFits(g, message) /\ Carries(p, g, r) => Carries(q.value, g, r)
  <2>1. q = Eth!Done(w) /\ q.value = w
    BY <1>2, <1>5 DEF Eth!Done, Eth!Err
  <2>2. FieldEnd(f) <= message.length
    BY <1>4, <1>5 DEF FieldFits
  <2>3. Carries(w, f, raw)
    <3> SUFFICES ASSUME NEW b \in f.offset + 1 .. FieldEnd(f)
                 PROVE  w[b] = bytes[b - f.offset]
      BY DEF Carries
    <3>1. b \in DOMAIN p /\ f.offset < b /\ b <= FieldEnd(f)
      BY <1>1, <1>3, <2>2
    <3> QED BY <3>1
  <2>4. ASSUME NEW g \in Range(message.fields), NEW r,
               Apart(f, g), FieldFits(g, message), Carries(p, g, r)
        PROVE  Carries(w, g, r)
    <3> SUFFICES ASSUME NEW b \in g.offset + 1 .. FieldEnd(g)
                 PROVE  w[b] = p[b]
      BY <2>4 DEF Carries
    <3>1. b \in DOMAIN p /\ b - 1 \in g.offset .. FieldEnd(g) - 1
      BY <1>1, <1>3, <2>4 DEF FieldFits
    <3>2. b - 1 \notin f.offset .. FieldEnd(f) - 1
      BY <2>4, <3>1 DEF Apart
    <3>3. ~(f.offset < b /\ b <= FieldEnd(f))
      BY <1>3, <3>1, <3>2
    <3> QED BY <3>1, <3>3
  <2>5. DOMAIN w = 1 .. message.length
    BY <1>1
  <2> HIDE DEF w
  <2> QED BY <2>1, <2>3, <2>4, <2>5
<1> QED BY <1>4, <1>5

\* What the payload shows behind the first k fields.
Alone(message, j) ==
  \A i \in 1 .. Len(message.fields) : i # j => Apart(message.fields[i], message.fields[j])

ShownBy(message, given, p, k) ==
  \A j \in 1 .. k :
    LET f == message.fields[j]
    IN  f.name \in DOMAIN given =>
          FieldFits(f, message) /\ (Alone(message, j) => Carries(p, f, RawIn(f, given)))

AllFit(message, given) ==
  \A f \in Range(message.fields) : f.name \in DOMAIN given => FieldFits(f, message)

Behind(c, message, given, k) ==
  /\ c[k] \in Payloads(message, given)
  /\ AllFit(message, given) => c[k].result = "ok"
  /\ c[k].result = "ok" => ShownBy(message, given, c[k].value, k)

\* The fields of a message as a list, and back.
LEMMA FieldsOf ==
  ASSUME NEW message, MessageDef(message)
  PROVE  /\ Len(message.fields) \in Nat /\ DOMAIN message.fields = 1 .. Len(message.fields)
         /\ \A k \in 1 .. Len(message.fields) : message.fields[k] \in Range(message.fields)
         /\ \A f \in Range(message.fields) : \E k \in 1 .. Len(message.fields) : f = message.fields[k]
BY LenProperties DEF MessageDef, Range

\* A payload without an error has the message's length.
LEMMA OkPayload ==
  ASSUME NEW message, NEW given, NEW p \in Payloads(message, given), p.result = "ok"
  PROVE  p = Eth!Done(p.value) /\ p.value \in [1 .. message.length -> Bytes(message, given)]
BY DEF Payloads, Eth!Done, Eth!Err

\* A further field leaves what the fields before it show.
LEMMA BehindNext ==
  ASSUME NEW message, MessageDef(message), NEW given, NEW c, Chain(c, message, given),
         NEW k \in Nat, k + 1 <= Len(message.fields), Behind(c, message, given, k)
  PROVE  Behind(c, message, given, k + 1)
<1> DEFINE n == Len(message.fields)  f == message.fields[k + 1]  p == c[k].value
           V == Bytes(message, given)
<1>1. /\ n \in Nat /\ f \in Range(message.fields) /\ k + 1 \in 1 .. n
      /\ \A j \in 1 .. n : message.fields[j] \in Range(message.fields)
  BY FieldsOf
<1>2. c[k + 1] = Eth!Written(given, c[k], f)
  <2>1. k + 1 - 1 = k
    OBVIOUS
  <2> QED BY <1>1, <2>1 DEF Chain
<1>3. c[k + 1] \in Payloads(message, given)
  BY <1>1, <1>2, WrittenStays DEF Behind
<1>4. CASE c[k].result # "ok"
  <2>1. c[k + 1] = c[k]
    BY <1>2, <1>4 DEF Eth!Written
  <2> QED BY <1>4, <2>1, <1>3 DEF Behind
<1>5. CASE c[k].result = "ok" /\ f.name \notin DOMAIN given
  <2>1. c[k + 1] = c[k]
    BY <1>2, <1>5 DEF Eth!Written
  <2>2. ShownBy(message, given, p, k + 1)
    <3> SUFFICES ASSUME NEW j \in 1 .. k + 1, message.fields[j].name \in DOMAIN given
                 PROVE  j \in 1 .. k
      BY <1>5 DEF ShownBy, Behind
    <3> QED BY <1>5
  <2> QED BY <1>5, <2>1, <2>2, <1>3 DEF Behind
<1>6. CASE c[k].result = "ok" /\ f.name \in DOMAIN given
  <2> DEFINE q == c[k + 1]
  <2>1. q = Eth!WriteField(f, RawIn(f, given), p)
    BY <1>2, <1>6 DEF Eth!Written, RawIn
  <2>2. p \in [1 .. message.length -> V]
    BY <1>6, OkPayload DEF Behind
  <2> HIDE DEF q, p, f
  <2>3. /\ FieldFits(f, message) <=> q.result = "ok"
        /\ q.result = "ok" =>
             /\ Carries(q.value, f, RawIn(f, given))
             /\ \A g \in Range(message.fields) : \A r :
                  Apart(f, g) /\ FieldFits(g, message) /\ Carries(p, g, r) => Carries(q.value, g, r)
    BY <1>1, <2>1, <2>2, WriteOne
  <2>4. AllFit(message, given) => q.result = "ok"
    BY <1>1, <1>6, <2>3 DEF AllFit
  <2>5. ASSUME q.result = "ok" PROVE ShownBy(message, given, q.value, k + 1)
    <3> SUFFICES ASSUME NEW j \in 1 .. k + 1, message.fields[j].name \in DOMAIN given
                 PROVE  /\ FieldFits(message.fields[j], message)
                        /\ Alone(message, j) =>
                             Carries(q.value, message.fields[j], RawIn(message.fields[j], given))
      BY DEF ShownBy
    <3>1. CASE j = k + 1
      BY <2>3, <2>5, <3>1 DEF f
    <3>2. CASE j # k + 1
      <4>1. j \in 1 .. k /\ j \in 1 .. n
        BY <3>2, <1>1
      <4>2. /\ FieldFits(message.fields[j], message)
            /\ Alone(message, j) => Carries(p, message.fields[j], RawIn(message.fields[j], given))
        BY <1>6, <4>1 DEF Behind, ShownBy, p
      <4>3. Alone(message, j) => Apart(f, message.fields[j])
        BY <1>1, <3>2 DEF Alone, f
      <4> QED BY <1>1, <2>3, <2>5, <4>1, <4>2, <4>3
    <3> QED BY <3>1, <3>2
  <2> QED BY <1>3, <2>4, <2>5 DEF Behind, q
<1> QED BY <1>4, <1>5, <1>6

\* An encoding succeeds when all values fit, and every field then shows what was given.
LEMMA EncodeResult ==
  ASSUME NEW message, MessageDef(message), NEW given,
         NEW e, e = Eth!EncodeFields(message, given)
  PROVE  /\ ~Unresolved(message, given) /\ AllFit(message, given) => e.result = "ok"
         /\ e.result = "ok" =>
              /\ ~Unresolved(message, given)
              /\ e = Eth!Done(e.value)
              /\ e.value \in [1 .. message.length -> Bytes(message, given)]
              /\ ShownBy(message, given, e.value, Len(message.fields))
<1>1. CASE Unresolved(message, given)
  <2>1. e = Eth!Err
    BY <1>1, EthRange DEF Eth!EncodeFields, Unresolved
  <2> QED BY <1>1, <2>1 DEF Eth!Err
<1>2. CASE ~Unresolved(message, given)
  <2> DEFINE n == Len(message.fields)
  <2>1. PICK c : Chain(c, message, given) /\ e = c[n]
    BY <1>2, EncodeChain
  <2> DEFINE S == {k \in Nat : k <= n => Behind(c, message, given, k)}
  <2>2. Behind(c, message, given, 0)
    <3>1. c[0] = Eth!Done(Zeros(message)) /\ c[0].result = "ok"
      BY <2>1 DEF Chain, Eth!Done
    <3>2. Zeros(message) \in [1 .. message.length -> Bytes(message, given)]
      BY DEF Zeros, Bytes
    <3> QED BY <3>1, <3>2 DEF Behind, Payloads, ShownBy
  <2>3. \A k \in Nat : k \in S => k + 1 \in S
    <3> SUFFICES ASSUME NEW k \in Nat, k \in S, k + 1 <= n
                 PROVE  Behind(c, message, given, k + 1)
      OBVIOUS
    <3>1. k <= n
      BY FieldsOf
    <3> QED BY <2>1, <3>1, BehindNext
  <2>4. n \in S
    <3>1. 0 \in S /\ n \in Nat
      BY <2>2, FieldsOf
    <3> HIDE DEF S, n
    <3> QED BY <2>3, <3>1, Induction
  <2>5. Behind(c, message, given, n)
    BY <2>4
  <2> QED BY <1>2, <2>1, <2>5, OkPayload DEF Behind
<1> QED BY <1>1, <1>2

-----------------------------------------------------------------------------
(* The netmap codec: a raw value, its bytes and back.                      *)

\* Quotient and remainder.
LEMMA DivMod ==
  ASSUME NEW n \in Int, NEW d \in Nat \ {0}
  PROVE  /\ n \div d \in Int /\ n % d \in 0 .. d - 1
         /\ n = d * (n \div d) + (n % d)
OBVIOUS

\* Quotient and remainder are the only ones.
LEMMA DivUnique ==
  ASSUME NEW n \in Int, NEW d \in Nat \ {0}, NEW q \in Int, NEW r \in Int,
         0 <= r, r < d, n = d * q + r
  PROVE  n \div d = q /\ n % d = r
<1> DEFINE p == n \div d  s == n % d
<1>1. p \in Int /\ s \in Int /\ 0 <= s /\ s < d /\ n = d * p + s
  <2>1. p \in Int /\ s \in 0 .. d - 1 /\ n = d * p + s
    BY DivMod
  <2> HIDE DEF p, s
  <2> QED BY <2>1
<1> HIDE DEF p, s
<1>2. d * (p - q) = r - s
  BY <1>1
<1>3. ~(p - q >= 1)
  <2> SUFFICES ASSUME p - q >= 1 PROVE FALSE
    OBVIOUS
  <2>1. d * (p - q) >= d
    BY <1>1
  <2> QED BY <1>1, <1>2, <2>1
<1>4. ~(p - q <= -1)
  <2> SUFFICES ASSUME q - p >= 1 PROVE FALSE
    BY <1>1
  <2>1. d * (q - p) >= d
    BY <1>1
  <2>2. d * (q - p) = s - r
    BY <1>1
  <2> QED BY <1>1, <2>1, <2>2
<1>5. p = q
  BY <1>1, <1>3, <1>4
<1>6. s = r
  BY <1>1, <1>5
<1> QED BY <1>5, <1>6 DEF p, s

\* Dividing by a product is dividing twice.
LEMMA DivDiv ==
  ASSUME NEW n \in Int, NEW a \in Nat \ {0}, NEW b \in Nat \ {0}
  PROVE  n \div (a * b) = (n \div a) \div b
<1> DEFINE p == n \div a  s == n % a  q == p \div b  r == p % b
<1>1. p \in Int /\ s \in Int /\ 0 <= s /\ s <= a - 1 /\ n = a * p + s
  BY DivMod
<1> HIDE DEF p, s
<1>2. q \in Int /\ r \in Int /\ 0 <= r /\ r <= b - 1 /\ p = b * q + r
  BY <1>1, DivMod
<1> HIDE DEF q, r
<1>3. n = (a * b) * q + (a * r + s)
  BY <1>1, <1>2
<1>4. a * r + s \in Int /\ 0 <= a * r + s
  BY <1>1, <1>2
<1>5. a * r <= a * (b - 1)
  BY <1>1, <1>2
<1>6. a * r + s < a * b
  BY <1>1, <1>2, <1>5
<1>7. a * b \in Nat \ {0}
  <2>1. a * b >= a
    OBVIOUS
  <2> QED BY <2>1
<1>8. n \div (a * b) = q
  <2> DEFINE d == a * b  t == a * r + s
  <2> HIDE DEF d, t
  <2>1. d \in Nat \ {0} /\ t \in Int /\ 0 <= t /\ t < d /\ n = d * q + t
    BY <1>3, <1>4, <1>6, <1>7 DEF d, t
  <2>2. n \div d = q
    BY <1>2, <2>1, DivUnique
  <2> QED BY <2>2 DEF d
<1> QED BY <1>8 DEF p, q

Digit(n, k) == (n \div Eth!Weight[k]) % Byte
W(k) == Eth!Weight[k]

\* The weight of each byte is that of the one below it, times a byte.
LEMMA Weights ==
  /\ W(1) = 1 /\ W(2) = Byte
  /\ \A k \in 1 .. 5 : W(k) \in Nat \ {0}
  /\ \A k \in 1 .. 4 : W(k + 1) = W(k) * Byte
<1>1. Byte \in Nat \ {0}
  BY EthernetAssumption
<1>2. /\ W(1) = 1 /\ W(2) = Byte /\ W(3) = Byte * Byte
      /\ W(4) = Byte * Byte * Byte /\ W(5) = Byte * Byte * Byte * Byte
  BY DEF W, Eth!Weight
<1>3. \A a \in Nat \ {0} : a * Byte \in Nat \ {0}
  <2> SUFFICES ASSUME NEW a \in Nat \ {0} PROVE a * Byte \in Nat \ {0}
    OBVIOUS
  <2>1. a * Byte >= a
    BY <1>1
  <2> QED BY <1>1, <2>1
<1>4. \A k \in 1 .. 5 : W(k) \in Nat \ {0}
  <2>1. W(3) \in Nat \ {0} /\ W(4) = W(3) * Byte
    BY <1>1, <1>2, <1>3
  <2>2. W(4) \in Nat \ {0} /\ W(5) = W(4) * Byte
    BY <1>2, <1>3, <2>1
  <2>3. W(5) \in Nat \ {0}
    BY <1>3, <2>2
  <2> QED BY <1>1, <1>2, <2>1, <2>2, <2>3
<1>5. \A k \in 1 .. 4 : W(k + 1) = W(k) * Byte
  <2>1. W(1 + 1) = W(1) * Byte /\ W(2 + 1) = W(2) * Byte /\ W(3 + 1) = W(3) * Byte /\ W(4 + 1) = W(4) * Byte
    BY <1>1, <1>2
  <2> QED BY <2>1
<1> QED BY <1>2, <1>4, <1>5

\* A number is its lowest bytes and what lies above them.
LEMMA OneByte ==
  ASSUME NEW n \in Int, NEW k \in 1 .. 4
  PROVE  /\ Digit(n, k) \in 0 .. Byte - 1
         /\ n \div W(k) \in Int /\ n \div W(k + 1) \in Int
         /\ (n \div W(k)) * W(k) = Digit(n, k) * W(k) + (n \div W(k + 1)) * W(k + 1)
<1> DEFINE w == W(k)  q == n \div w  p == q \div Byte  r == q % Byte
<1>1. Byte \in Nat \ {0} /\ w \in Nat \ {0} /\ W(k + 1) = w * Byte
  BY EthernetAssumption, Weights
<1> HIDE DEF w
<1>2. q \in Int
  BY <1>1, DivMod
<1>3. n \div W(k + 1) = p
  <2>1. n \div (w * Byte) = (n \div w) \div Byte
    BY <1>1, DivDiv
  <2> QED BY <1>1, <2>1
<1>4. r = Digit(n, k)
  BY DEF Digit, w, W
<1> HIDE DEF q
<1>5. p \in Int /\ r \in 0 .. Byte - 1 /\ q = Byte * p + r
  BY <1>1, <1>2, DivMod
<1> HIDE DEF p, r
<1>6. q * w = r * w + p * (w * Byte)
  BY <1>1, <1>2, <1>5
<1> QED BY <1>1, <1>2, <1>3, <1>4, <1>5, <1>6 DEF q, w

Total(type, raw) ==
  Digit(raw, 1) * W(1) + (IF Eth!Size(type) < 2 THEN 0 ELSE Digit(raw, 2) * W(2))
    + (IF Eth!Size(type) < 4 THEN 0 ELSE Digit(raw, 3) * W(3) + Digit(raw, 4) * W(4))

\* A type's span is the weight above its last byte.
LEMMA SpanIs ==
  ASSUME NEW type
  PROVE  /\ Eth!Span(type) = W(Eth!Size(type) + 1) /\ Eth!Span(type) \in Nat \ {0}
         /\ Eth!Size(type) \in {1, 2, 4}
<1>1. Eth!Size(type) \in {1, 2, 4}
  BY SizeIs
<1>2. Eth!Size(type) + 1 \in 1 .. 5
  BY <1>1
<1> QED BY <1>1, <1>2, Weights DEF Eth!Span, W

\* A raw value is its bytes and a multiple of the span.
LEMMA TotalIs ==
  ASSUME NEW type, NEW raw \in Int
  PROVE  /\ Total(type, raw) \in Nat /\ raw \div Eth!Span(type) \in Int
         /\ raw = Total(type, raw) + (raw \div Eth!Span(type)) * Eth!Span(type)
<1> DEFINE D(k) == Digit(raw, k)  Q(k) == raw \div W(k)
<1>1. ASSUME NEW k \in 1 .. 4
      PROVE  /\ D(k) \in Nat /\ W(k) \in Nat /\ W(k + 1) \in Nat /\ Q(k) \in Int /\ Q(k + 1) \in Int
             /\ D(k) * W(k) \in Nat /\ Q(k) * W(k) \in Int
             /\ Q(k) * W(k) = D(k) * W(k) + Q(k + 1) * W(k + 1)
  <2>1. D(k) \in Nat
    <3>1. Digit(raw, k) \in 0 .. Byte - 1 /\ Byte \in Nat
      BY OneByte, EthernetAssumption
    <3> QED BY <3>1
  <2>2. W(k) \in Nat /\ W(k + 1) \in Nat
    BY Weights
  <2>3. Q(k) \in Int /\ Q(k + 1) \in Int /\ Q(k) * W(k) = D(k) * W(k) + Q(k + 1) * W(k + 1)
    BY OneByte
  <2> HIDE DEF D, Q
  <2> QED BY <2>1, <2>2, <2>3
<1>2. Q(1) * W(1) = raw
  BY Weights, DivMod
<1> DEFINE x(k) == D(k) * W(k)  y(k) == Q(k) * W(k)
<1>3. /\ x(1) \in Nat /\ x(2) \in Nat /\ x(3) \in Nat /\ x(4) \in Nat
      /\ y(1) \in Int /\ y(2) \in Int /\ y(3) \in Int /\ y(4) \in Int /\ y(5) \in Int
      /\ y(1) = x(1) + y(2) /\ y(2) = x(2) + y(3) /\ y(3) = x(3) + y(4) /\ y(4) = x(4) + y(5)
      /\ Q(2) \in Int /\ Q(3) \in Int /\ Q(5) \in Int
  <2>1. \A k \in 1 .. 4 : x(k) \in Nat /\ y(k) \in Int /\ y(k) = x(k) + y(k + 1) /\ Q(k + 1) \in Int
    BY <1>1
  <2>2. y(4 + 1) \in Int
    <3>1. 4 \in 1 .. 4
      OBVIOUS
    <3>2. Q(4 + 1) \in Int /\ W(4 + 1) \in Nat
      BY <1>1, <3>1
    <3> HIDE DEF Q
    <3> QED BY <3>2
  <2> HIDE DEF x, y, Q
  <2>3. 1 + 1 = 2 /\ 2 + 1 = 3 /\ 3 + 1 = 4 /\ 4 + 1 = 5
    OBVIOUS
  <2>4. 1 \in 1 .. 4 /\ 2 \in 1 .. 4 /\ 3 \in 1 .. 4 /\ 4 \in 1 .. 4
    OBVIOUS
  <2> QED BY <2>1, <2>2, <2>3, <2>4
<1>4. Eth!Size(type) \in {1, 2, 4}
  BY SizeIs
<1>5. Total(type, raw) = x(1) + (IF Eth!Size(type) < 2 THEN 0 ELSE x(2))
                              + (IF Eth!Size(type) < 4 THEN 0 ELSE x(3) + x(4))
  BY DEF Total
<1>6. raw \div Eth!Span(type) = Q(Eth!Size(type) + 1)
  BY SpanIs
<1>7. (raw \div Eth!Span(type)) * Eth!Span(type) = y(Eth!Size(type) + 1)
  BY SpanIs
<1>8. y(1) = raw
  BY <1>2
<1> HIDE DEF x, y, Q
<1>9. CASE Eth!Size(type) = 1
  BY <1>3, <1>5, <1>6, <1>7, <1>8, <1>9
<1>10. CASE Eth!Size(type) = 2
  BY <1>3, <1>5, <1>6, <1>7, <1>8, <1>10
<1>11. CASE Eth!Size(type) = 4
  BY <1>3, <1>5, <1>6, <1>7, <1>8, <1>11
<1> QED BY <1>4, <1>9, <1>10, <1>11

\* raw_int undoes raw_bytes on every raw value the type holds.
LEMMA RawAndBack ==
  ASSUME NEW type, NEW raw \in Int, Eth!FitsType(type, raw), NEW bytes,
         \A k \in 1 .. Eth!Size(type) : bytes[k] = Eth!RawBytes(type, raw)[k]
  PROVE  Eth!RawInt(type, bytes) = raw
<1> DEFINE span == Eth!Span(type)
<1>1. CASE type = "bool"
  <2>1. raw \in {0, 1} /\ Eth!RawBytes(type, raw)[1] = IF raw # 0 THEN 1 ELSE 0
    <3>1. raw \in {0, 1}
      BY <1>1 DEF Eth!FitsType, Eth!Signed
    <3>2. Eth!RawBytes(type, raw) = <<IF raw # 0 THEN 1 ELSE 0>>
      BY <1>1, Zenon DEF Eth!RawBytes
    <3> QED BY <3>1, <3>2
  <2>2. Eth!Size(type) = 1
    BY <1>1 DEF Eth!Size
  <2>3. bytes[1] = IF raw # 0 THEN 1 ELSE 0
    BY <2>1, <2>2
  <2> QED BY <1>1, <2>1, <2>3 DEF Eth!RawInt
<1>2. CASE type # "bool"
  <2>1. Eth!Size(type) \in {1, 2, 4}
    BY SizeIs
  <2>2. ASSUME NEW k \in 1 .. Eth!Size(type)
        PROVE  bytes[Eth!At(type, k)] = Digit(raw, k)
    <3>1. Eth!At(type, k) \in 1 .. Eth!Size(type) /\ Eth!At(type, Eth!At(type, k)) = k
      BY <2>1 DEF Eth!At
    <3>2. Eth!RawBytes(type, raw)[Eth!At(type, k)] = Digit(raw, k)
      BY <1>2, <3>1 DEF Eth!RawBytes, Digit
    <3> QED BY <3>1, <3>2
  <2> DEFINE sum == Total(type, raw)  top == raw \div span
  <2>3. Eth!RawInt(type, bytes) = IF Eth!Signed(type) /\ 2 * sum >= span THEN sum - span ELSE sum
    <3> DEFINE low(k) == bytes[Eth!At(type, k)] * Eth!Weight[k]
               all == low(1) + (IF Eth!Size(type) < 2 THEN 0 ELSE low(2))
                        + (IF Eth!Size(type) < 4 THEN 0 ELSE low(3) + low(4))
    <3>1. Eth!RawInt(type, bytes) = IF Eth!Signed(type) /\ 2 * all >= span THEN all - span ELSE all
      BY <1>2 DEF Eth!RawInt
    <3>2. \A k \in 1 .. Eth!Size(type) : low(k) = Digit(raw, k) * W(k)
      BY <2>2 DEF W
    <3>3. all = sum
      <4> HIDE DEF low
      <4>1. 1 \in 1 .. Eth!Size(type)
        BY <2>1
      <4>2. Eth!Size(type) >= 2 => 2 \in 1 .. Eth!Size(type)
        BY <2>1
      <4>3. Eth!Size(type) >= 4 => 3 \in 1 .. Eth!Size(type) /\ 4 \in 1 .. Eth!Size(type)
        BY <2>1
      <4> QED BY <2>1, <3>2, <4>1, <4>2, <4>3 DEF Total
    <3> HIDE DEF all
    <3> QED BY <3>1, <3>3
  <2>4. /\ span \in Nat \ {0} /\ sum \in Nat /\ top \in Int
        /\ raw = sum + top * span
    BY SpanIs, TotalIs
  <2>5. span \div 2 \in Int /\ 2 * (span \div 2) <= span /\ span \div 2 <= span
    BY <2>4
  <2>6. CASE ~Eth!Signed(type)
    <3>1. 0 <= raw /\ raw < span
      BY <1>2, <2>6 DEF Eth!FitsType
    <3>2. top = 0
      BY <2>4, <3>1, DivUnique
    <3> HIDE DEF sum, top, span
    <3> QED BY <2>3, <2>4, <2>6, <3>2
  <2>7. CASE Eth!Signed(type)
    <3>1. -(span \div 2) <= raw /\ raw < span \div 2
      BY <1>2, <2>7 DEF Eth!FitsType
    <3>2. CASE raw >= 0
      <4>1. raw < span
        BY <2>4, <2>5, <3>1
      <4>2. top = 0
        <5>1. raw = span * 0 + raw
          BY <2>4
        <5> HIDE DEF span
        <5> QED BY <2>4, <3>2, <4>1, <5>1, DivUnique
      <4> HIDE DEF sum, top
      <4>3. sum = raw
        BY <2>4, <4>2
      <4>4. ~(2 * sum >= span)
        BY <2>4, <2>5, <3>1, <4>3
      <4> QED BY <2>3, <4>3, <4>4
    <3>3. CASE raw < 0
      <4>1. 0 <= raw + span /\ raw + span < span /\ raw = span * (-1) + (raw + span) /\ raw + span \in Int
        BY <2>4, <2>5, <3>1, <3>3
      <4>2. top = -1
        BY <2>4, <4>1, DivUnique
      <4> HIDE DEF sum, top
      <4>3. sum = raw + span
        BY <2>4, <4>2
      <4>4. 2 * sum >= span
        BY <2>4, <2>5, <3>1, <4>3
      <4>5. sum - span = raw
        BY <2>4, <4>3
      <4> QED BY <2>3, <2>7, <4>4, <4>5
    <3> QED BY <3>2, <3>3
  <2> QED BY <2>6, <2>7
<1> QED BY <1>1, <1>2

\* Rounding a quotient: the nearest number, and the one a number is nearer to than
\* to any other.
Near(x, a, b) ==
  /\ x \in Int
  /\ 2 * Eth!Distance(x * b, a) <= Eth!Distance(b, 0)

\* Rounding stays within a half.
LEMMA RoundedIs ==
  ASSUME NEW a \in Int, NEW b \in Int, b # 0
  PROVE  Near(Eth!Rounded(a, b), a, b)
<1> DEFINE n == IF b < 0 THEN -a ELSE a
           d == IF b < 0 THEN -b ELSE b
           m == IF n >= 0 THEN n ELSE -n
           up == 2 * m + d
           two == 2 * d
           q == up \div two
           r == up % two
           e == q * d - m
<1>1. /\ n \in Int /\ d \in Nat \ {0} /\ m \in Nat /\ up \in Int /\ two \in Nat \ {0}
  OBVIOUS
<1>2. Eth!Rounded(a, b) = IF n >= 0 THEN q ELSE -q
  BY DEF Eth!Rounded
<1>3. q \in Int /\ r \in 0 .. two - 1 /\ up = two * q + r
  <2> HIDE DEF up, two
  <2> QED BY <1>1, DivMod
<1>4. e \in Int /\ -d <= 2 * e /\ 2 * e <= d
  <2> HIDE DEF q, r, m, d
  <2>1. 2 * m + d = 2 * (q * d) + r /\ 0 <= r /\ r <= 2 * d - 1 /\ q * d \in Int /\ r \in Int
    BY <1>1, <1>3 DEF up, two
  <2> QED BY <1>1, <2>1
<1> DEFINE x == Eth!Rounded(a, b)
<1>5. x \in Int /\ x * b \in Int /\ (x * b - a = e \/ x * b - a = -e)
  <2> HIDE DEF q
  <2>1. CASE b > 0 /\ a >= 0
    <3>1. x = q /\ d = b /\ m = a
      BY <1>2, <2>1
    <3> QED BY <1>3, <3>1
  <2>2. CASE b > 0 /\ a < 0
    <3>1. x = -q /\ d = b /\ m = -a
      BY <1>2, <2>2
    <3>2. (-q) * b = -(q * b)
      BY <1>3
    <3> QED BY <1>3, <3>1, <3>2
  <2>3. CASE b < 0 /\ a <= 0
    <3>1. x = q /\ d = -b /\ m = -a
      BY <1>2, <2>3
    <3>2. q * (-b) = -(q * b)
      BY <1>3
    <3> QED BY <1>3, <3>1, <3>2
  <2>4. CASE b < 0 /\ a > 0
    <3>1. x = -q /\ d = -b /\ m = a
      BY <1>2, <2>4
    <3>2. q * (-b) = -(q * b) /\ (-q) * b = -(q * b)
      BY <1>3
    <3> QED BY <1>3, <3>1, <3>2
  <2> QED BY <2>1, <2>2, <2>3, <2>4
<1>6. Eth!Distance(b, 0) = d
  BY DEF Eth!Distance
<1> HIDE DEF x, e, d
<1>7. 2 * Eth!Distance(x * b, a) <= d
  BY <1>1, <1>4, <1>5 DEF Eth!Distance
<1> QED BY <1>5, <1>6, <1>7 DEF x, Near

\* There is one number at most nearer than half a step.
LEMMA NearestIsOne ==
  ASSUME NEW a \in Int, NEW b \in Int, NEW x \in Int, NEW y \in Int, Near(x, a, b),
         2 * Eth!Distance(y * b, a) < Eth!Distance(b, 0)
  PROVE  x = y
<1> DEFINE d == IF b < 0 THEN -b ELSE b
<1>1. x * b \in Int /\ y * b \in Int /\ d \in Nat /\ Eth!Distance(b, 0) = d
  BY DEF Eth!Distance
<1> DEFINE u == x * b  v == y * b
<1>2. -d <= 2 * (u - a) /\ 2 * (u - a) <= d /\ -d < 2 * (v - a) /\ 2 * (v - a) < d
  <2> HIDE DEF u, v, d
  <2> QED BY <1>1 DEF Near, Eth!Distance, u, v
<1>3. -d < u - v /\ u - v < d
  <2> HIDE DEF u, v, d
  <2> QED BY <1>1, <1>2 DEF u, v
<1>4. u - v = (x - y) * b
  OBVIOUS
<1> HIDE DEF u, v
<1>5. CASE x - y >= 1
  <2>1. b > 0 => (x - y) * b >= b
    BY <1>5
  <2>2. b < 0 => (x - y) * b <= b
    BY <1>5
  <2> QED BY <1>1, <1>3, <1>4, <2>1, <2>2
<1>6. CASE y - x >= 1
  <2>1. b > 0 => (y - x) * b >= b
    BY <1>6
  <2>2. b < 0 => (y - x) * b <= b
    BY <1>6
  <2>3. (y - x) * b = -((x - y) * b)
    OBVIOUS
  <2> QED BY <1>1, <1>3, <1>4, <2>1, <2>2, <2>3
<1> QED BY <1>5, <1>6

FieldDef(f) ==
  /\ f.offset \in Nat /\ f.type \in Eth!Types
  /\ f.factor \in Int /\ f.shift \in Int
  /\ DOMAIN f.values \subseteq Int /\ IsFiniteSet(DOMAIN f.values)

\* A scaled number is as far from another one as its scale is from that one unshifted.
LEMMA Shifted ==
  ASSUME NEW u \in Int, NEW s \in Int, NEW v \in Int
  PROVE  Eth!Distance(u + s, v) = Eth!Distance(u, v - s)
BY DEF Eth!Distance

\* A finite set whose members are ordered has a last one.
LEMMA LastOf ==
  ASSUME NEW S, IsFiniteSet(S), S # {}, NEW R,
         \A x, y \in S : x = y \/ <<x, y>> \in R \/ <<y, x>> \in R,
         \A x, y, z \in S : <<x, y>> \in R /\ <<y, z>> \in R => <<x, z>> \in R
  PROVE  \E x \in S : \A y \in S : y = x \/ <<y, x>> \in R
<1> DEFINE Ends(T, x) == x \in T /\ \A y \in T : y = x \/ <<y, x>> \in R
           Small == {T \in SUBSET S : T # {} => \E x \in T : Ends(T, x)}
<1>1. {} \in Small
  OBVIOUS
<1>2. ASSUME NEW T \in SUBSET S, T \in Small, NEW s \in S PROVE T \cup {s} \in Small
  <2>1. CASE T = {}
    <3>1. Ends(T \cup {s}, s)
      BY <2>1
    <3> QED BY <3>1
  <2>2. CASE T # {}
    <3>1. PICK x \in T : Ends(T, x)
      BY <1>2, <2>2
    <3>2. CASE <<s, x>> \in R \/ s = x
      <4>1. Ends(T \cup {s}, x)
        BY <3>1, <3>2
      <4> QED BY <3>1, <4>1
    <3>3. CASE <<x, s>> \in R
      <4>1. ASSUME NEW y \in T PROVE <<y, s>> \in R
        BY <3>1, <3>3
      <4>2. Ends(T \cup {s}, s)
        BY <4>1
      <4> QED BY <4>2
    <3> QED BY <3>1, <3>2, <3>3
  <2> QED BY <2>1, <2>2
<1> HIDE DEF Small
<1>3. S \in Small
  <2>1. PICK n \in Nat : \E e \in [1 .. n -> S] : \A s \in S : \E k \in 1 .. n : e[k] = s
    BY FS_NatSurjection DEF Surjection, ExistsSurjection
  <2>2. PICK e \in [1 .. n -> S] : \A s \in S : \E k \in 1 .. n : e[k] = s
    BY <2>1
  <2> DEFINE Part(k) == {e[i] : i \in 1 .. k}
             Good == {k \in Nat : k <= n => Part(k) \in Small}
  <2>3. Part(0) \in Small
    <3>1. Part(0) = {}
      OBVIOUS
    <3> QED BY <1>1, <3>1
  <2>4. ASSUME NEW k \in Nat, k + 1 <= n, Part(k) \in Small PROVE Part(k + 1) \in Small
    <3>1. Part(k + 1) = Part(k) \cup {e[k + 1]} /\ Part(k) \in SUBSET S /\ e[k + 1] \in S
      BY <2>4
    <3> HIDE DEF Part
    <3> QED BY <1>2, <2>4, <3>1
  <2>5. n \in Good
    <3> HIDE DEF Part
    <3>1. 0 \in Good
      BY <2>3
    <3>2. ASSUME NEW k \in Nat, k \in Good PROVE k + 1 \in Good
      <4>1. CASE k + 1 <= n
        <5>1. Part(k) \in Small
          BY <3>2, <4>1
        <5> QED BY <2>4, <4>1, <5>1
      <4>2. CASE ~(k + 1 <= n)
        BY <4>2
      <4> QED BY <4>1, <4>2
    <3> HIDE DEF Good
    <3> QED BY <3>1, <3>2, Induction
  <2>6. Part(n) = S
    BY <2>2
  <2>7. Part(n) \in Small
    <3> HIDE DEF Part
    <3> QED BY <2>5
  <2> QED BY <2>6, <2>7
<1> QED BY <1>3 DEF Small

\* A set of numbers with finitely many members has a least one.
LEMMA LeastInt ==
  ASSUME NEW S \in SUBSET Int, IsFiniteSet(S), S # {}
  PROVE  \E i \in S : \A j \in S : i <= j
<1> DEFINE R == {p \in S \X S : p[2] < p[1]}
<1>1. \A x, y \in S : <<x, y>> \in R <=> y < x
  OBVIOUS
<1> HIDE DEF R
<1>2. /\ \A x, y \in S : x = y \/ <<x, y>> \in R \/ <<y, x>> \in R
      /\ \A x, y, z \in S : <<x, y>> \in R /\ <<y, z>> \in R => <<x, z>> \in R
  BY <1>1
<1>3. \E x \in S : \A y \in S : y = x \/ <<y, x>> \in R
  BY <1>2, LastOf
<1>4. PICK x \in S : \A y \in S : y = x \/ <<y, x>> \in R
  BY <1>3
<1>5. ASSUME NEW y \in S PROVE x <= y
  <2>1. x \in Int /\ y \in Int /\ (y = x \/ x < y)
    BY <1>1, <1>4
  <2> QED BY <2>1
<1> QED BY <1>5
\* A field is found under its name, since no two share one.
LEMMA FieldsAre ==
  ASSUME NEW message, MessageDef(message), NEW f \in Range(message.fields)
  PROVE  /\ FieldDef(f)
         /\ Eth!HasField(message, f.name) /\ Eth!FieldOf(message, f.name) = f
<1>1. FieldDef(f)
  BY DEF MessageDef, FieldDef
<1>2. Eth!HasField(message, f.name)
  BY EthRange DEF Eth!HasField
<1>3. \A g \in Range(message.fields) : g.name = f.name => g = f
  BY DEF MessageDef, Range
<1>4. Eth!FieldOf(message, f.name) = f
  BY <1>3, EthRange DEF Eth!FieldOf
<1> QED BY <1>1, <1>2, <1>4

\* A type holds the numbers that fit it.
LEMMA HeldFits ==
  ASSUME NEW type, NEW raw
  PROVE  raw \in Eth!Held(type) <=> raw \in Int /\ Eth!FitsType(type, raw)
<1> DEFINE span == Eth!Span(type)
<1>1. span \in Nat \ {0} /\ span \div 2 \in Int
  <2>1. span \in Nat \ {0}
    BY SpanIs
  <2> HIDE DEF span
  <2> QED BY <2>1
<1>2. CASE type = "bool"
  BY <1>2 DEF Eth!Held, Eth!FitsType, Eth!Signed
<1>3. CASE type # "bool" /\ Eth!Signed(type)
  <2>1. raw \in Eth!Held(type) <=> raw \in -(span \div 2) .. span \div 2 - 1
    BY <1>3 DEF Eth!Held
  <2>2. Eth!FitsType(type, raw) <=> -(span \div 2) <= raw /\ raw < span \div 2
    BY <1>3 DEF Eth!FitsType
  <2> HIDE DEF span
  <2> QED BY <1>1, <2>1, <2>2
<1>4. CASE type # "bool" /\ ~Eth!Signed(type)
  <2>1. raw \in Eth!Held(type) <=> raw \in 0 .. span - 1
    BY <1>4 DEF Eth!Held
  <2>2. Eth!FitsType(type, raw) <=> 0 <= raw /\ raw < span
    BY <1>4 DEF Eth!FitsType
  <2> HIDE DEF span
  <2> QED BY <1>1, <2>1, <2>2
<1> QED BY <1>2, <1>3, <1>4

\* A symbol's raw value.
LEMMA Symbols ==
  ASSUME NEW f, FieldDef(f), NEW symbol,
         NEW r, r = Eth!ResolveSymbol(f, symbol)
  PROVE  /\ symbol \in Range(f.values) <=> r.result = "ok"
         /\ r.result = "ok" => r.value \in DOMAIN f.values /\ f.values[r.value] = symbol
<1> DEFINE raws == {x \in DOMAIN f.values : f.values[x] = symbol}
<1>1. CASE raws = {}
  BY <1>1 DEF Eth!ResolveSymbol, Eth!Err, Range
<1>2. CASE raws # {}
  <2>1. IsFiniteSet(raws) /\ raws \in SUBSET Int
    BY FS_Subset DEF FieldDef
  <2>2. \E x \in raws : \A y \in raws : x <= y
    <3> HIDE DEF raws
    <3> QED BY <1>2, <2>1, LeastInt
  <2>3. r = Eth!Done(CHOOSE x \in raws : \A y \in raws : x <= y)
    BY <1>2 DEF Eth!ResolveSymbol
  <2>4. r.result = "ok" /\ r.value \in raws
    BY <2>2, <2>3 DEF Eth!Done
  <2> QED BY <2>4 DEF Range
<1> QED BY <1>1, <1>2

\* What is sendable is sent.
LEMMA SendableResolves ==
  ASSUME NEW f, FieldDef(f), NEW value, Numeric(value), Eth!Sendable(f, value)
  PROVE  Eth!RawOf(f, value).result = "ok"
<1>1. CASE "symbol" \in DOMAIN value
  BY <1>1, Symbols, EthRange DEF Eth!Sendable, Eth!RawOf
<1>2. CASE "symbol" \notin DOMAIN value
  <2> DEFINE b == f.factor  v == value.num
  <2>1. v \in Int /\ b \in Int /\ f.shift \in Int
    BY <1>2 DEF Numeric, FieldDef
  <2>2. PICK raw \in Eth!Held(f.type) : 2 * Eth!Distance(raw * b + f.shift, v) < Eth!Distance(b, 0)
    BY <1>2 DEF Eth!Sendable
  <2>3. raw \in Int /\ Eth!FitsType(f.type, raw)
    BY HeldFits
  <2>4. Eth!Distance(raw * b + f.shift, v) = Eth!Distance(raw * b, v - f.shift)
    <3>1. raw * b \in Int
      BY <2>1, <2>3
    <3> QED BY <2>1, <3>1, Shifted
  <2>5. b # 0
    <3> SUFFICES ASSUME b = 0 PROVE FALSE
      OBVIOUS
    <3>1. Eth!Distance(b, 0) = 0 /\ raw * b = 0
      BY <2>3 DEF Eth!Distance
    <3> QED BY <2>1, <2>2, <2>4, <3>1 DEF Eth!Distance
  <2>6. Eth!Rounded(v - f.shift, b) = raw
    <3> DEFINE a == v - f.shift  x == Eth!Rounded(a, b)
    <3>1. a \in Int /\ Near(x, a, b)
      BY <2>1, <2>5, RoundedIs
    <3>2. 2 * Eth!Distance(raw * b, a) < Eth!Distance(b, 0)
      BY <2>2, <2>4
    <3>3. x \in Int
      BY <3>1 DEF Near
    <3> HIDE DEF a, x
    <3>4. x = raw
      BY <2>1, <2>3, <3>1, <3>2, <3>3, NearestIsOne
    <3> QED BY <3>4 DEF a, x
  <2> QED BY <1>2, <2>3, <2>5, <2>6 DEF Eth!RawOf, Eth!PhysicalToRaw, Eth!Done
<1> QED BY <1>1, <1>2

\* The raw value that stands for a given one: as near as the factor allows, or the
\* symbol's.
LEMMA ResolvedIs ==
  ASSUME NEW f, FieldDef(f), NEW value, Numeric(value), Eth!RawOf(f, value).result = "ok",
         \A x \in DOMAIN f.values : x \in Eth!Held(f.type),
         NEW raw, raw = Eth!RawOf(f, value).value
  PROVE  /\ raw \in Int /\ Eth!FitsType(f.type, raw)
         /\ IF "symbol" \in DOMAIN value THEN raw \in DOMAIN f.values /\ f.values[raw] = value.symbol
            ELSE 2 * Eth!Distance(Eth!RawToPhysical(f, raw), value.num) <= Eth!Distance(f.factor, 0)
<1>1. CASE "symbol" \in DOMAIN value
  <2>1. raw \in DOMAIN f.values /\ f.values[raw] = value.symbol
    BY <1>1, Symbols DEF Eth!RawOf
  <2> QED BY <1>1, <2>1, HeldFits
<1>2. CASE "symbol" \notin DOMAIN value
  <2> DEFINE b == f.factor  v == value.num  a == v - f.shift
  <2>1. v \in Int /\ b \in Int /\ f.shift \in Int /\ a \in Int
    BY <1>2 DEF Numeric, FieldDef
  <2>2. b # 0 /\ raw = Eth!Rounded(a, b) /\ Eth!FitsType(f.type, raw)
    BY <1>2 DEF Eth!RawOf, Eth!PhysicalToRaw, Eth!Done, Eth!Err
  <2>3. raw \in Int /\ 2 * Eth!Distance(raw * b, a) <= Eth!Distance(b, 0)
    <3> HIDE DEF a, b
    <3>1. Near(raw, a, b)
      BY <2>1, <2>2, RoundedIs
    <3> QED BY <3>1 DEF Near
  <2>4. Eth!Distance(raw * b + f.shift, v) = Eth!Distance(raw * b, a)
    <3>1. raw * b \in Int
      BY <2>1, <2>3
    <3> QED BY <2>1, <3>1, Shifted
  <2> QED BY <1>2, <2>2, <2>3, <2>4 DEF Eth!RawToPhysical
<1> QED BY <1>1, <1>2

\* What a decoded field shows of what was encoded.
Reads(f, read, said) ==
  /\ read.result = "ok"
  /\ IF "symbol" \in DOMAIN said THEN read.value.symbol = said.symbol
     ELSE 2 * Eth!Distance(read.value.value, said.num) <= Eth!Distance(f.factor, 0)

\* Values for every field of the message.
Says(message, given) ==
  \A f \in Range(message.fields) : f.name \in DOMAIN given /\ Numeric(given[f.name])

\* Decoding what was encoded reads back what was given.
LEMMA DecodesToSaid ==
  ASSUME NEW message, MessageDef(message), Eth!Proper(message),
         NEW given, Says(message, given),
         NEW payload, Eth!EncodeFields(message, given) = Eth!Done(payload),
         NEW f \in Range(message.fields)
  PROVE  Reads(f, Eth!DecodeField(message, payload, f.name), given[f.name])
<1> DEFINE e == Eth!EncodeFields(message, given)
           raw == RawIn(f, given)
           size == Eth!Size(f.type)
           end == f.offset + size
<1>1. /\ e.result = "ok" /\ e.value = payload
  BY DEF Eth!Done
<1>2. /\ ~Unresolved(message, given)
      /\ payload \in [1 .. message.length -> Bytes(message, given)]
      /\ ShownBy(message, given, payload, Len(message.fields))
  <2> HIDE DEF e
  <2> QED BY <1>1, EncodeResult DEF e
<1>3. FieldDef(f) /\ Eth!HasField(message, f.name) /\ Eth!FieldOf(message, f.name) = f
  BY FieldsAre
<1>4. PICK j \in 1 .. Len(message.fields) : f = message.fields[j]
  BY FieldsOf
<1>5. Alone(message, j)
  <2> SUFFICES ASSUME NEW i \in 1 .. Len(message.fields), i # j
               PROVE  Apart(message.fields[i], f)
    BY <1>4 DEF Alone
  <2>1. message.fields[i] \in Range(message.fields) /\ DOMAIN message.fields = 1 .. Len(message.fields)
    BY FieldsOf
  <2>2. message.fields[i] # f
    BY <1>4, <2>1 DEF MessageDef
  <2> DEFINE g == message.fields[i]
             bytes(h) == h.offset .. h.offset + Eth!Size(h.type) - 1
  <2>3. g \in Range(message.fields) /\ g # f
    BY <2>1, <2>2
  <2>4. \A h, k \in Range(message.fields) : h # k => bytes(h) \cap bytes(k) = {}
    BY EthRange, ZenonT(60) DEF Eth!Proper
  <2>5. bytes(g) \cap bytes(f) = {}
    <3> HIDE DEF g, bytes
    <3> QED BY <2>3, <2>4
  <2>6. bytes(g) = g.offset .. FieldEnd(g) - 1 /\ bytes(f) = f.offset .. FieldEnd(f) - 1
    <3>1. FieldDef(g) /\ FieldDef(f)
      BY <1>3, <2>3, FieldsAre
    <3> HIDE DEF g
    <3>2. g.offset \in Int /\ f.offset \in Int
      BY <3>1 DEF FieldDef
    <3>3. Eth!Size(g.type) \in Int /\ Eth!Size(f.type) \in Int
      BY SizeIs
    <3>4. \A a, b \in Int : a .. a + b - 1 = a .. (a + b) - 1
      OBVIOUS
    <3> QED BY <3>2, <3>3, <3>4, Zenon DEF FieldEnd
  <2> QED BY <2>5, <2>6 DEF Apart
<1>6. FieldFits(f, message) /\ Carries(payload, f, raw)
  BY <1>2, <1>4, <1>5 DEF ShownBy, Says
<1>7. /\ f.offset \in Nat /\ size \in {1, 2, 4} /\ end <= message.length /\ message.length \in Nat
      /\ Len(payload) = message.length
  BY <1>2, <1>3, <1>6, SizeIs, LenIs DEF FieldDef, FieldFits, FieldEnd, MessageDef
<1>8. /\ raw \in Int /\ Eth!FitsType(f.type, raw)
      /\ IF "symbol" \in DOMAIN given[f.name]
         THEN raw \in DOMAIN f.values /\ f.values[raw] = given[f.name].symbol
         ELSE 2 * Eth!Distance(Eth!RawToPhysical(f, raw), given[f.name].num)
                <= Eth!Distance(f.factor, 0)
  <2>1. Eth!RawOf(f, given[f.name]).result = "ok" /\ Numeric(given[f.name])
    BY <1>2 DEF Unresolved, Says
  <2>2. \A x \in DOMAIN f.values : x \in Eth!Held(f.type)
    BY EthRange DEF Eth!Proper
  <2> QED BY <1>3, <2>1, <2>2, ResolvedIs DEF RawIn
<1> DEFINE part == SubSeq(payload, f.offset + 1, end)
<1>9. Eth!RawInt(f.type, part) = raw
  <2> DEFINE o == f.offset  len == Len(payload)
  <2>1. /\ o \in Nat /\ size \in {1, 2, 4} /\ end = o + size /\ end <= len /\ len \in Nat
    BY <1>7
  <2>2. payload \in Seq(Bytes(message, given))
    BY <1>2, <1>7
  <2>3. ASSUME NEW k \in 1 .. size PROVE part[k] = payload[o + k]
    <3> HIDE DEF o, size, end, part
    <3>1. /\ o + 1 \in 1 .. len + 1 /\ end \in o + 1 - 1 .. len
          /\ k \in 1 .. end - (o + 1) + 1 /\ o + 1 + k - 1 = o + k
      BY <2>1
    <3>2. part = SubSeq(payload, o + 1, end)
      BY DEF part, o, end, size
    <3> HIDE DEF len
    <3>3. SubSeq(payload, o + 1, end)[k] = payload[o + 1 + k - 1]
      BY <2>2, <3>1, SubSeqProperties DEF len
    <3> QED BY <3>1, <3>2, <3>3
  <2>4. ASSUME NEW k \in 1 .. size PROVE part[k] = Eth!RawBytes(f.type, raw)[k]
    <3>1. \A b \in o + 1 .. end : payload[b] = Eth!RawBytes(f.type, raw)[b - o]
      BY <1>6 DEF Carries, FieldEnd
    <3> HIDE DEF o, size, end, part, raw
    <3>2. o + k \in o + 1 .. end /\ (o + k) - o = k
      BY <2>1
    <3>3. payload[o + k] = Eth!RawBytes(f.type, raw)[(o + k) - o]
      BY <3>1, <3>2
    <3> QED BY <2>3, <3>2, <3>3
  <2> HIDE DEF part, raw
  <2> QED BY <1>8, <2>4, RawAndBack DEF size
<1>10. Eth!ReadField(f, payload) = Eth!Done(raw)
  <2> HIDE DEF raw
  <2> QED BY <1>7, <1>9 DEF Eth!ReadField
<1>11. Eth!DecodeField(message, payload, f.name)
         = Eth!Done([value |-> Eth!RawToPhysical(f, raw),
                     symbol |-> IF raw \in DOMAIN f.values THEN f.values[raw] ELSE ""])
  <2> HIDE DEF raw
  <2> QED BY <1>3, <1>10 DEF Eth!DecodeField, Eth!Done
<1> DEFINE read == Eth!DecodeField(message, payload, f.name)
<1> HIDE DEF raw
<1>12. /\ read.result = "ok" /\ read.value.value = Eth!RawToPhysical(f, raw)
       /\ raw \in DOMAIN f.values => read.value.symbol = f.values[raw]
  <2> DEFINE value == Eth!RawToPhysical(f, raw)
             symbol == IF raw \in DOMAIN f.values THEN f.values[raw] ELSE ""
  <2>1. read = [result |-> "ok", value |-> [value |-> value, symbol |-> symbol]]
    BY <1>11 DEF Eth!Done
  <2>2. raw \in DOMAIN f.values => symbol = f.values[raw]
    OBVIOUS
  <2> HIDE DEF value, symbol, read
  <2>3. read.result = "ok" /\ read.value.value = value /\ read.value.symbol = symbol
    BY <2>1
  <2> QED BY <2>2, <2>3 DEF value
<1> HIDE DEF read
<1>13. Reads(f, read, given[f.name])
  BY <1>8, <1>12 DEF Reads
<1> QED BY <1>13 DEF read

-----------------------------------------------------------------------------
(* The Ethernet vehicle: what is built, what is under way and what polls   *)
(* show.                                                                   *)

\* A message nobody tampered with is what its sender encoded, from values for
\* every field.
Mail(built, m) ==
  m.sound =>
    /\ m.ecu \in DOMAIN built
    /\ built[m.ecu].message # Eth!None
    /\ MessageDef(built[m.ecu].message)
    /\ Says(built[m.ecu].message, m.said)
    /\ Eth!EncodeFields(built[m.ecu].message, m.said) = Eth!Done(m.payload)

EthNode(i) ==
  /\ ethEcus[i].period \in Nat
  /\ ethNext[i] \in Nat
  /\ steadyFrom[i] \in Nat /\ steadyFrom[i] <= ethTime
  /\ Eth!IsConfig(i) => MessageDef(ethEcus[i].message) /\ Says(ethEcus[i].message, base[i])
  /\ \A f \in DOMAIN overrides[i] : Numeric(overrides[i][f])

EthLists ==
  LET n == Len(ethEcus)
  IN  /\ n \in Nat
      /\ IsList(ethEcus, n) /\ IsList(base, n) /\ IsList(overrides, n)
      /\ IsList(ethNext, n) /\ IsList(steadyFrom, n)
      /\ \A i \in 1 .. n : EthNode(i)

\* The delayed messages: each from another node or another step.
Waiting ==
  /\ IsFiniteSet(held)
  /\ \A h \in held :
       /\ h.born \in Nat /\ h.born < ethTime
       /\ h.message.ecu \in DOMAIN ethEcus
       /\ Mail(ethEcus, h.message)
  /\ \A g, h \in held : g.born = h.born /\ g.message.ecu = h.message.ecu => g = h

EthState ==
  /\ ethConfig \in EthVehicles
  /\ ethTime \in Nat
  /\ EthLists
  /\ Waiting
  /\ \A d \in DOMAIN latest : Mail(ethEcus, latest[d])
  /\ ethPc = "build" => ethTime = 0 /\ latest = <<>> /\ held = {}

\* Before(g, h), as a set of pairs.
Earlier(S) ==
  {p \in S \X S : Eth!Before(p[1], p[2])}

\* Among datagrams held back there is a last one.
LEMMA LastDelayed ==
  ASSUME NEW S, IsFiniteSet(S), S # {},
         \A h \in S : h.born \in Int /\ h.message.ecu \in Int,
         \A g, h \in S : g.born = h.born /\ g.message.ecu = h.message.ecu => g = h
  PROVE  \E h \in S : \A g \in S : g = h \/ Eth!Before(g, h)
<1>1. \A x, y \in S : <<x, y>> \in Earlier(S) <=> Eth!Before(x, y)
  BY DEF Earlier
<1>2. \A x, y \in S : x = y \/ Eth!Before(x, y) \/ Eth!Before(y, x)
  BY DEF Eth!Before
<1>3. \A x, y, z \in S : Eth!Before(x, y) /\ Eth!Before(y, z) => Eth!Before(x, z)
  BY DEF Eth!Before
<1>4. /\ \A x, y \in S : x = y \/ <<x, y>> \in Earlier(S) \/ <<y, x>> \in Earlier(S)
      /\ \A x, y, z \in S : <<x, y>> \in Earlier(S) /\ <<y, z>> \in Earlier(S)
                              => <<x, z>> \in Earlier(S)
  BY <1>1, <1>2, <1>3, Zenon
<1>5. \E x \in S : \A y \in S : y = x \/ <<y, x>> \in Earlier(S)
  <2> DEFINE R == Earlier(S)
  <2> HIDE DEF R
  <2>1. /\ \A x, y \in S : x = y \/ <<x, y>> \in R \/ <<y, x>> \in R
        /\ \A x, y, z \in S : <<x, y>> \in R /\ <<y, z>> \in R => <<x, z>> \in R
    BY <1>4 DEF R
  <2>2. \E x \in S : \A y \in S : y = x \/ <<y, x>> \in R
    BY <2>1, LastOf
  <2> QED BY <2>2 DEF R
<1> QED BY <1>1, <1>5

\* Among the datagrams of a tick there is one of the last ECU.
LEMMA LastSent ==
  ASSUME NEW S, IsFiniteSet(S), S # {}, \A m \in S : m.ecu \in Int
  PROVE  \E m \in S : \A n \in S : n.ecu <= m.ecu
<1> DEFINE R == {p \in S \X S : p[1].ecu <= p[2].ecu}
<1>1. \A x, y \in S : <<x, y>> \in R <=> x.ecu <= y.ecu
  OBVIOUS
<1> HIDE DEF R
<1>2. /\ \A x, y \in S : x = y \/ <<x, y>> \in R \/ <<y, x>> \in R
      /\ \A x, y, z \in S : <<x, y>> \in R /\ <<y, z>> \in R => <<x, z>> \in R
  BY <1>1
<1>3. PICK x \in S : \A y \in S : y = x \/ <<y, x>> \in R
  BY <1>2, LastOf
<1>4. ASSUME NEW y \in S PROVE y.ecu <= x.ecu
  <2>1. CASE y = x
    <3>1. x.ecu \in Int /\ y.ecu = x.ecu
      BY <2>1
    <3> QED BY <3>1
  <2>2. CASE <<y, x>> \in R
    BY <1>1, <2>2
  <2> QED BY <1>3, <2>1, <2>2
<1> QED BY <1>4

\* The image of a finite set is finite.
LEMMA ImageFinite ==
  ASSUME NEW S, IsFiniteSet(S), NEW f
  PROVE  IsFiniteSet({f[x] : x \in S})
<1> DEFINE T == {f[x] : x \in S}
           g == [x \in S |-> f[x]]
<1>1. g \in Surjection(S, T)
  BY DEF Surjection
<1> HIDE DEF T, g
<1>3. IsFiniteSet(T)
  BY <1>1, FS_Surjection
<1> QED BY <1>3 DEF T

\* What a config node sends is its base overlaid with the overrides (ecu.rs, UdpConfigEcu).
LEMMA CurrentIs ==
  ASSUME NEW i, EthNode(i), Eth!IsConfig(i)
  PROVE  /\ Eth!Current(i) = Eth!Given(i)
         /\ Says(ethEcus[i].message, Eth!Given(i))
<1> DEFINE message == ethEcus[i].message
           names == {g.name : g \in Eth!Range(message.fields)}
<1>1. \A f \in names : f \in DOMAIN base[i] /\ Numeric(base[i][f])
  BY EthRange DEF EthNode, Says
<1>2. \A f \in DOMAIN overrides[i] : Numeric(overrides[i][f])
  BY DEF EthNode
<1>3. Eth!Given(i) = [f \in names |-> IF f \in DOMAIN overrides[i] THEN overrides[i][f] ELSE base[i][f]]
  BY DEF Eth!Given
<1>4. Eth!Current(i) = Eth!Given(i)
  BY <1>1 DEF Eth!Given, Eth!Current
<1>5. \A f \in names : f \in DOMAIN Eth!Given(i) /\ Numeric(Eth!Given(i)[f])
  <2> HIDE DEF names
  <2> QED BY <1>1, <1>2, <1>3
<1>6. \A f \in Range(message.fields) : f.name \in names
  BY EthRange
<1> HIDE DEF names
<1> QED BY <1>4, <1>5, <1>6 DEF Says

-----------------------------------------------------------------------------
(* A step of the network.                                                  *)

Pushed == {Eth!Datagram(i) : i \in {j \in DOMAIN ethEcus : Eth!Transmits(j)}}
Routed == {IF Eth!Acts(m, "corrupt") THEN Eth!Corrupted(m) ELSE m :
             m \in {n \in Pushed : ~Eth!Acts(n, "drop") /\ ~Eth!Acts(n, "delay")}}
Delays == {m \in Pushed : Eth!Acts(m, "delay")}
Waits == held \cup {Eth!Delayed(m) : m \in Delays}
DueNow == {h \in Waits : h.at <= ethTime}
Shown == DOMAIN latest \cup {m.dst : m \in Routed} \cup {h.message.dst : h \in DueNow}

\* A tick by its parts: the held, the shown, the clock and the next updates.
LEMMA TickIs ==
  ASSUME Eth!Tick
  PROVE  /\ ethPc = "running" /\ UNCHANGED <<ethPc, ethConfig, ethEcus, base, overrides>>
         /\ held' = Waits \ DueNow
         /\ latest' = [d \in Shown |-> Eth!Newest(d, Routed, DueNow)]
         /\ ethTime' = ethTime + StepUs
         /\ ethNext' = [i \in DOMAIN ethEcus |-> Eth!NextUpdate(i)]
         /\ steadyFrom' = [i \in DOMAIN ethEcus |->
              IF Eth!IsConfig(i) /\ Eth!Disturbed(i) THEN ethTime' ELSE steadyFrom[i]]
BY DEF Eth!Tick, Pushed, Routed, Delays, Waits, DueNow, Shown

\* The lists of the nodes run side by side.
LEMMA ListsAre ==
  ASSUME EthLists
  PROVE  /\ Len(ethEcus) \in Nat
         /\ DOMAIN ethEcus = 1 .. Len(ethEcus) /\ DOMAIN base = 1 .. Len(ethEcus)
         /\ DOMAIN overrides = 1 .. Len(ethEcus) /\ DOMAIN ethNext = 1 .. Len(ethEcus)
         /\ DOMAIN steadyFrom = 1 .. Len(ethEcus)
         /\ \A i \in DOMAIN ethEcus : EthNode(i)
BY DEF EthLists, IsList

\* What a node sends in the step.
SentBy(i, m) ==
  /\ i \in DOMAIN ethEcus /\ Eth!Transmits(i) /\ Eth!IsConfig(i)
  /\ m.ecu = i /\ m.dst = ethEcus[i].message.dst
  /\ Mail(ethEcus, m)

\* The datagram of a node that transmits.
LEMMA DatagramIs ==
  ASSUME EthState, NEW i \in DOMAIN ethEcus, Eth!Transmits(i)
  PROVE  /\ SentBy(i, Eth!Datagram(i))
         /\ Eth!Datagram(i).ts = ethTime /\ Eth!Datagram(i).said = Eth!Given(i)
         /\ Eth!Datagram(i).sound
<1> DEFINE m == Eth!Datagram(i)
<1>1. /\ m.ecu = i /\ m.dst = ethEcus[i].message.dst /\ m.payload = Eth!Encoded(i).value
      /\ m.ts = ethTime /\ m.said = Eth!Given(i) /\ m.sound = TRUE
  BY DEF Eth!Datagram
<1>2. EthNode(i) /\ Eth!IsConfig(i) /\ Eth!Encoded(i).result = "ok"
  BY ListsAre DEF EthState, Eth!Transmits, Eth!Due
<1>3. Eth!Current(i) = Eth!Given(i) /\ Says(ethEcus[i].message, Eth!Given(i))
  BY <1>2, CurrentIs
<1>4. MessageDef(ethEcus[i].message) /\ ethEcus[i].message # Eth!None
  BY <1>2 DEF EthNode, Eth!IsConfig
<1>5. Eth!EncodeFields(ethEcus[i].message, Eth!Given(i)) = Eth!Done(Eth!Encoded(i).value)
  <2> DEFINE e == Eth!EncodeFields(ethEcus[i].message, Eth!Given(i))
  <2>1. Eth!Encoded(i) = e
    BY <1>3 DEF Eth!Encoded
  <2> HIDE DEF e
  <2>2. e = Eth!Done(e.value)
    BY <1>2, <1>4, <2>1, EncodeResult DEF e
  <2> QED BY <2>1, <2>2 DEF e
<1> HIDE DEF m
<1>6. Mail(ethEcus, m)
  BY <1>1, <1>3, <1>4, <1>5 DEF Mail
<1> QED BY <1>1, <1>2, <1>6 DEF SentBy, m

\* A record with two of its parts changed.
LEMMA Tampered ==
  ASSUME NEW a, NEW b, NEW p, NEW t, NEW s, NEW k, NEW m, NEW x,
         m = [ecu |-> a, dst |-> b, payload |-> p, ts |-> t, said |-> s, sound |-> TRUE],
         NEW q, q = [m EXCEPT !.payload[k] = x, !.sound = FALSE]
  PROVE  q.ecu = a /\ q.dst = b /\ ~q.sound
OBVIOUS

\* What is routed was sent by a node, and is its datagram when no fault is active.
LEMMA RoutedIs ==
  ASSUME EthState, NEW q \in Routed
  PROVE  \E i : SentBy(i, q) /\ (Eth!ActiveFor(q.dst) = {} => q = Eth!Datagram(i))
<1>1. PICK m \in Pushed : q = IF Eth!Acts(m, "corrupt") THEN Eth!Corrupted(m) ELSE m
  BY DEF Routed
<1>2. PICK i \in DOMAIN ethEcus : Eth!Transmits(i) /\ m = Eth!Datagram(i)
  BY DEF Pushed
<1>3. SentBy(i, m)
  BY <1>2, DatagramIs
<1>4. CASE q = m
  BY <1>2, <1>3, <1>4
<1>5. CASE Eth!Acts(m, "corrupt") /\ q # m
  <2>1. Eth!ActiveFor(m.dst) # {}
    BY <1>5 DEF Eth!Acts, Eth!Decides
  <2>2. q = Eth!Corrupted(m)
    BY <1>1, <1>5
  <2> DEFINE r == CHOOSE rule \in Eth!Decides(m.dst) : TRUE
  <2>3. q = [m EXCEPT !.payload[r.byte] = Eth!Flipped(@, r.mask), !.sound = FALSE]
    BY <1>5, <2>2 DEF Eth!Corrupted
  <2>4. q.ecu = m.ecu /\ q.dst = m.dst /\ ~q.sound
    <3> HIDE DEF r
    <3> DEFINE x == Eth!Flipped(m.payload[r.byte], r.mask)
    <3>1. q = [m EXCEPT !.payload[r.byte] = x, !.sound = FALSE]
      BY <2>3
    <3> HIDE DEF x
    <3>2. /\ m.ecu = i /\ m.dst = ethEcus[i].message.dst
          /\ m = [ecu |-> i, dst |-> ethEcus[i].message.dst, payload |-> Eth!Encoded(i).value,
                  ts |-> ethTime, said |-> Eth!Given(i), sound |-> TRUE]
      BY <1>2 DEF Eth!Datagram
    <3> QED BY <3>1, <3>2, Tampered
  <2>5. SentBy(i, q)
    BY <1>3, <2>4 DEF SentBy, Mail
  <2> QED BY <2>1, <2>4, <2>5
<1> QED BY <1>1, <1>4, <1>5

\* A message that waits was waiting before, or is one of the step's own.
LEMMA WaitsIs ==
  ASSUME EthState, NEW h \in Waits
  PROVE  \/ h \in held
         \/ \E i \in DOMAIN ethEcus :
              /\ h = Eth!Delayed(Eth!Datagram(i)) /\ h.born = ethTime
              /\ SentBy(i, h.message) /\ Eth!ActiveFor(h.message.dst) # {}
<1> SUFFICES ASSUME h \notin held
             PROVE  \E i \in DOMAIN ethEcus :
                      /\ h = Eth!Delayed(Eth!Datagram(i)) /\ h.born = ethTime
                      /\ SentBy(i, h.message) /\ Eth!ActiveFor(h.message.dst) # {}
  OBVIOUS
<1>1. PICK m \in Delays : h = Eth!Delayed(m)
  BY DEF Waits
<1>2. PICK i \in DOMAIN ethEcus : Eth!Transmits(i) /\ m = Eth!Datagram(i)
  BY DEF Delays, Pushed
<1>3. SentBy(i, m)
  BY <1>2, DatagramIs
<1>4. Eth!ActiveFor(m.dst) # {}
  BY DEF Delays, Eth!Acts, Eth!Decides
<1> DEFINE r == CHOOSE rule \in Eth!Decides(m.dst) : TRUE
<1>5. h = [at |-> ethTime + r.delay, born |-> ethTime, message |-> [m EXCEPT !.ts = @ + r.delay]]
  BY <1>1 DEF Eth!Delayed
<1>6. h.born = ethTime /\ h.message = [m EXCEPT !.ts = @ + r.delay]
  BY <1>5
<1>7. /\ h.message.ecu = m.ecu /\ h.message.dst = m.dst /\ h.message.payload = m.payload
      /\ h.message.said = m.said /\ h.message.sound = m.sound
  <2>1. m = [ecu |-> i, dst |-> ethEcus[i].message.dst, payload |-> Eth!Encoded(i).value,
             ts |-> ethTime, said |-> Eth!Given(i), sound |-> TRUE]
    BY <1>2 DEF Eth!Datagram
  <2> HIDE DEF r
  <2> QED BY <1>6, <2>1
<1>8. SentBy(i, h.message)
  BY <1>3, <1>7 DEF SentBy, Mail
<1> QED BY <1>1, <1>2, <1>4, <1>6, <1>7, <1>8

\* A tick routes and holds back finitely many datagrams.
LEMMA StepFinite ==
  ASSUME EthState
  PROVE  IsFiniteSet(Routed) /\ IsFiniteSet(Waits)
<1> DEFINE T == {j \in DOMAIN ethEcus : Eth!Transmits(j)}
           g == [i \in T |-> Eth!Datagram(i)]
           S == {n \in Pushed : ~Eth!Acts(n, "drop") /\ ~Eth!Acts(n, "delay")}
           f == [m \in S |-> IF Eth!Acts(m, "corrupt") THEN Eth!Corrupted(m) ELSE m]
           h == [m \in Delays |-> Eth!Delayed(m)]
<1>1. IsFiniteSet(T)
  <2>1. DOMAIN ethEcus = 1 .. Len(ethEcus) /\ Len(ethEcus) \in Nat
    BY ListsAre DEF EthState
  <2>2. IsFiniteSet(1 .. Len(ethEcus))
    BY <2>1, FS_Interval
  <2> QED BY <2>1, <2>2, FS_Subset
<1>2. IsFiniteSet(Pushed)
  <2>1. Pushed = {g[i] : i \in T}
    BY DEF Pushed
  <2> HIDE DEF g, T
  <2> QED BY <1>1, <2>1, ImageFinite
<1>3. IsFiniteSet(S) /\ IsFiniteSet(Delays)
  BY <1>2, FS_Subset DEF Delays
<1>4. IsFiniteSet(Routed)
  <2>1. Routed = {f[m] : m \in S}
    BY DEF Routed
  <2> HIDE DEF f, S
  <2> QED BY <1>3, <2>1, ImageFinite
<1>5. IsFiniteSet(Waits)
  <2>1. Waits = held \cup {h[m] : m \in Delays}
    BY DEF Waits
  <2>2. IsFiniteSet({h[m] : m \in Delays})
    <3> HIDE DEF h
    <3> QED BY <1>3, ImageFinite
  <2>3. IsFiniteSet(held)
    BY DEF EthState, Waiting
  <2> HIDE DEF h
  <2> QED BY <2>1, <2>2, <2>3, FS_Union
<1> QED BY <1>4, <1>5

\* The messages that wait are distinguished by their step and their sender.
LEMMA WaitsApart ==
  ASSUME EthState
  PROVE  /\ \A h \in Waits : /\ h.born \in Nat /\ h.born <= ethTime
                             /\ h.message.ecu \in DOMAIN ethEcus
                             /\ Mail(ethEcus, h.message)
         /\ \A g, h \in Waits : g.born = h.born /\ g.message.ecu = h.message.ecu => g = h
<1>1. ethTime \in Nat
  BY DEF EthState
<1>2. ASSUME NEW h \in Waits
      PROVE  /\ h.born \in Nat /\ h.born <= ethTime
             /\ h.message.ecu \in DOMAIN ethEcus /\ Mail(ethEcus, h.message)
  BY <1>1, WaitsIs DEF EthState, Waiting, SentBy
<1>3. ASSUME NEW g \in Waits, NEW h \in Waits, g.born = h.born, g.message.ecu = h.message.ecu
      PROVE  g = h
  <2> DEFINE Old(x) == x \in held /\ x.born < ethTime
             New(x) == /\ x.born = ethTime
                       /\ x = Eth!Delayed(Eth!Datagram(x.message.ecu))
  <2>1. ASSUME NEW x \in Waits PROVE Old(x) \/ New(x)
    <3>1. CASE x \in held
      BY <3>1 DEF EthState, Waiting
    <3>2. CASE \E i \in DOMAIN ethEcus :
                 /\ x = Eth!Delayed(Eth!Datagram(i)) /\ x.born = ethTime
                 /\ SentBy(i, x.message) /\ Eth!ActiveFor(x.message.dst) # {}
      BY <3>2 DEF SentBy
    <3> QED BY <3>1, <3>2, WaitsIs
  <2>2. CASE Old(g) /\ Old(h)
    BY <1>3, <2>2 DEF EthState, Waiting
  <2>3. CASE New(g) /\ New(h)
    BY <1>3, <2>3
  <2>4. CASE (Old(g) /\ New(h)) \/ (New(g) /\ Old(h))
    <3>1. (g.born < ethTime /\ h.born = ethTime) \/ (h.born < ethTime /\ g.born = ethTime)
      BY <2>4
    <3> QED BY <1>1, <1>2, <1>3, <3>1
  <2> QED BY <2>1, <2>2, <2>3, <2>4
<1> QED BY <1>2, <1>3

\* The newest datagram is a late one that is due, else one sent now, else the one before.
LEMMA NewestIs ==
  ASSUME EthState, NEW d
  PROVE  LET late == {h \in DueNow : h.message.dst = d}
             now == {m \in Routed : m.dst = d}
             newest == Eth!Newest(d, Routed, DueNow)
         IN  /\ late # {} => \E h \in late : newest = h.message
             /\ late = {} /\ now # {} => newest \in now
             /\ late = {} /\ now = {} => newest = latest[d]
<1> DEFINE late == {h \in DueNow : h.message.dst = d}
           now == {m \in Routed : m.dst = d}
           newest == Eth!Newest(d, Routed, DueNow)
<1> SUFFICES /\ late # {} => \E h \in late : newest = h.message
             /\ late = {} /\ now # {} => newest \in now
             /\ late = {} /\ now = {} => newest = latest[d]
  OBVIOUS
<1>0. Len(ethEcus) \in Nat /\ DOMAIN ethEcus = 1 .. Len(ethEcus)
  BY ListsAre DEF EthState
<1>1. CASE late # {}
  <2>1. IsFiniteSet(late) /\ late \in SUBSET Waits
    BY StepFinite, FS_Subset DEF DueNow
  <2>2. \A h \in late : h.born \in Int /\ h.message.ecu \in Int
    BY <1>0, <2>1, WaitsApart
  <2>3. \E h \in late : \A g \in late : g = h \/ Eth!Before(g, h)
    <3> HIDE DEF late
    <3> QED BY <1>1, <2>1, <2>2, WaitsApart, LastDelayed
  <2>4. newest = (CHOOSE h \in late : \A g \in late : g = h \/ Eth!Before(g, h)).message
    BY <1>1 DEF Eth!Newest
  <2> HIDE DEF late, newest
  <2> QED BY <1>1, <2>3, <2>4
<1>2. CASE late = {} /\ now # {}
  <2>1. IsFiniteSet(now) /\ now \in SUBSET Routed
    BY StepFinite, FS_Subset
  <2>2. \A m \in now : m.ecu \in Int
    BY <1>0, <2>1, RoutedIs DEF SentBy
  <2>3. \E m \in now : \A n \in now : n.ecu <= m.ecu
    <3> HIDE DEF now
    <3> QED BY <1>2, <2>1, <2>2, LastSent
  <2>4. newest = CHOOSE m \in now : \A n \in now : n.ecu <= m.ecu
    BY <1>2 DEF Eth!Newest
  <2> HIDE DEF now, newest
  <2> QED BY <1>2, <2>3, <2>4
<1>3. CASE late = {} /\ now = {}
  BY <1>3 DEF Eth!Newest
<1> QED BY <1>1, <1>2, <1>3

\* The Ethernet vehicle starts within its invariant.
LEMMA EthInitially == Eth!Init => EthState
<1> SUFFICES ASSUME Eth!Init PROVE EthState
  OBVIOUS
<1>1. IsList(<<>>, 0)
  BY DEF IsList
<1>2. EthLists
  BY <1>1 DEF Eth!Init, EthLists
<1>3. Waiting
  BY FS_EmptySet DEF Eth!Init, Waiting
<1> QED BY <1>2, <1>3 DEF Eth!Init, EthState

\* The base of a node that is built has a value for every field.
LEMMA BaseSays ==
  ASSUME NEW ecu, Eth!Buildable(ecu), ecu.kind # "udp-sil",
         \A f \in DOMAIN ecu.fields : Numeric(ecu.fields[f])
  PROVE  /\ Eth!MessageOf(ecu) = Netmap[ecu.message] /\ MessageDef(Netmap[ecu.message])
         /\ Says(Netmap[ecu.message], Eth!BaseOf(ecu))
<1> DEFINE m == Netmap[ecu.message]
           names == DOMAIN ecu.fields \cup {g.name : g \in Eth!Range(m.fields)}
<1>1. MessageDef(m)
  BY EthernetAssumption DEF Eth!Buildable
<1>2. Eth!BaseOf(ecu) = [f \in names |->
        IF f \notin DOMAIN ecu.fields THEN [num |-> 0]
        ELSE IF stack = "tcp" THEN ecu.fields[f]
        ELSE Eth!Literal(m, f, ecu.fields[f])]
  BY DEF Eth!BaseOf
<1>3. ASSUME NEW f \in DOMAIN ecu.fields, stack # "tcp"
      PROVE  Numeric(Eth!Literal(m, f, ecu.fields[f]))
  <2> DEFINE l == ecu.fields[f]  d == Eth!FieldOf(m, f)
  <2>1. CASE "symbol" \in DOMAIN l
    <3>1. Eth!HasField(m, f) /\ Eth!ResolveSymbol(d, l.symbol).result = "ok"
      BY <1>3, <2>1 DEF Eth!Buildable, Eth!LiteralOk
    <3>2. d \in Range(m.fields)
      BY <3>1, EthRange DEF Eth!HasField, Eth!FieldOf
    <3>3. FieldDef(d)
      BY <1>1, <3>2, FieldsAre
    <3> DEFINE r == Eth!ResolveSymbol(d, l.symbol)
    <3> HIDE DEF d
    <3>4. r.value \in Int
      BY <3>1, <3>3, Symbols DEF FieldDef
    <3>5. Eth!RawToPhysical(d, r.value) \in Int
      <4> HIDE DEF r
      <4> QED BY <3>3, <3>4 DEF FieldDef, Eth!RawToPhysical
    <3>6. Eth!Literal(m, f, l) = [num |-> Eth!RawToPhysical(d, r.value)]
      BY <2>1 DEF Eth!Literal, d
    <3> QED BY <3>5, <3>6 DEF Numeric
  <2>2. CASE "symbol" \notin DOMAIN l
    BY <2>2 DEF Eth!Literal
  <2> QED BY <2>1, <2>2
<1>4. ASSUME NEW f \in names
      PROVE  f \in DOMAIN Eth!BaseOf(ecu) /\ Numeric(Eth!BaseOf(ecu)[f])
  <2>1. Eth!BaseOf(ecu)[f] = IF f \notin DOMAIN ecu.fields THEN [num |-> 0]
                             ELSE IF stack = "tcp" THEN ecu.fields[f]
                             ELSE Eth!Literal(m, f, ecu.fields[f])
    <3> HIDE DEF names, m
    <3> QED BY <1>2
  <2>2. Numeric([num |-> 0])
    BY DEF Numeric
  <2> QED BY <1>2, <1>3, <2>1, <2>2
<1>5. \A f \in Range(m.fields) : f.name \in names
  BY EthRange
<1>6. Says(m, Eth!BaseOf(ecu))
  <2> HIDE DEF names
  <2> QED BY <1>4, <1>5 DEF Says
<1> QED BY <1>1, <1>6 DEF Eth!MessageOf

\* Building an ECU keeps the state of the Ethernet vehicle well formed.
LEMMA EthBuildEcu ==
  ASSUME EthState, Eth!BuildEcu
  PROVE  EthState'
<1> DEFINE n == Len(ethEcus)
           ecu == ethConfig[n + 1]
           node == [name |-> ecu.name, kind |-> ecu.kind,
                    message |-> Eth!MessageOf(ecu), period |-> ecu.period]
<1>1. /\ ethPc = "build" /\ n < Len(ethConfig) /\ Eth!Buildable(ecu)
      /\ ethEcus' = Append(ethEcus, node) /\ base' = Append(base, Eth!BaseOf(ecu))
      /\ overrides' = Append(overrides, <<>>) /\ ethNext' = Append(ethNext, 0)
      /\ steadyFrom' = Append(steadyFrom, 0)
      /\ ethPc' = ethPc /\ ethConfig' = ethConfig /\ ethTime' = ethTime
      /\ held' = held /\ latest' = latest
  BY DEF Eth!BuildEcu, Eth!network
<1>2. n \in Nat /\ ethTime = 0 /\ held = {} /\ latest = <<>>
  BY <1>1 DEF EthState, EthLists
<1>3. /\ ecu.period \in Nat
      /\ ecu.kind # "udp-sil" => \A f \in DOMAIN ecu.fields : Numeric(ecu.fields[f])
  <2>1. ethConfig \in EthVehicles /\ ethConfig \in Seq(Range(ethConfig))
    BY EthernetAssumption DEF EthState
  <2>2. n + 1 \in DOMAIN ethConfig
    BY <1>1, <1>2, <2>1
  <2>3. ecu \in Range(ethConfig)
    BY <2>2 DEF Range
  <2> QED BY <2>1, <2>3, EthernetAssumption
<1>4. Eth!MessageOf(ecu) # Eth!None =>
        MessageDef(Eth!MessageOf(ecu)) /\ Says(Eth!MessageOf(ecu), Eth!BaseOf(ecu))
  BY <1>1, <1>3, BaseSays DEF Eth!MessageOf
<1>5. /\ IsList(ethEcus', n + 1) /\ IsList(base', n + 1) /\ IsList(overrides', n + 1)
      /\ IsList(ethNext', n + 1) /\ IsList(steadyFrom', n + 1)
      /\ Len(ethEcus') = n + 1
      /\ ethEcus' = [i \in 1 .. n + 1 |-> IF i = n + 1 THEN node ELSE ethEcus[i]]
      /\ base' = [i \in 1 .. n + 1 |-> IF i = n + 1 THEN Eth!BaseOf(ecu) ELSE base[i]]
      /\ overrides' = [i \in 1 .. n + 1 |-> IF i = n + 1 THEN <<>> ELSE overrides[i]]
      /\ ethNext' = [i \in 1 .. n + 1 |-> IF i = n + 1 THEN 0 ELSE ethNext[i]]
      /\ steadyFrom' = [i \in 1 .. n + 1 |-> IF i = n + 1 THEN 0 ELSE steadyFrom[i]]
  <2>1. /\ IsList(ethEcus, n) /\ IsList(base, n) /\ IsList(overrides, n)
        /\ IsList(ethNext, n) /\ IsList(steadyFrom, n)
    BY DEF EthState, EthLists
  <2> HIDE DEF n, node, ecu
  <2>2. /\ IsList(ethEcus', n + 1) /\ Len(ethEcus') = n + 1 /\ ethEcus' = Longer(ethEcus, node, n)
        /\ IsList(base', n + 1) /\ base' = Longer(base, Eth!BaseOf(ecu), n)
        /\ IsList(overrides', n + 1) /\ overrides' = Longer(overrides, <<>>, n)
        /\ IsList(ethNext', n + 1) /\ ethNext' = Longer(ethNext, 0, n)
        /\ IsList(steadyFrom', n + 1) /\ steadyFrom' = Longer(steadyFrom, 0, n)
    BY <1>1, <1>2, <2>1, AppendIs
  <2> QED BY <2>2 DEF Longer
<1>6. ASSUME NEW i \in 1 .. n + 1 PROVE EthNode(i)'
  <2>1. CASE i = n + 1
    <3>1. /\ ethEcus'[i] = node /\ base'[i] = Eth!BaseOf(ecu) /\ overrides'[i] = <<>>
          /\ ethNext'[i] = 0 /\ steadyFrom'[i] = 0
      <4> HIDE DEF n, node
      <4> QED BY <1>5, <2>1
    <3>2. node.period = ecu.period /\ node.message = Eth!MessageOf(ecu)
      OBVIOUS
    <3>3. Eth!IsConfig(i)' => MessageDef(ethEcus'[i].message) /\ Says(ethEcus'[i].message, base'[i])
      BY <1>4, <3>1, <3>2 DEF Eth!IsConfig
    <3>4. /\ ethEcus'[i].period \in Nat /\ ethNext'[i] \in Nat
          /\ steadyFrom'[i] \in Nat /\ steadyFrom'[i] <= ethTime'
      <4>1. ethEcus'[i].period \in Nat
        <5> HIDE DEF node, ecu
        <5> QED BY <1>3, <3>1, <3>2
      <4>2. ethNext'[i] \in Nat /\ steadyFrom'[i] \in Nat /\ steadyFrom'[i] <= ethTime'
        <5>1. ethTime' = 0 /\ ethNext'[i] = 0 /\ steadyFrom'[i] = 0
          BY <1>1, <1>2, <3>1
        <5> QED BY <5>1
      <4> QED BY <4>1, <4>2
    <3>5. \A f \in DOMAIN overrides'[i] : Numeric(overrides'[i][f])
      BY <3>1
    <3> QED BY <3>3, <3>4, <3>5 DEF EthNode
  <2>2. CASE i # n + 1
    <3>1. i \in 1 .. n /\ EthNode(i)
      BY <1>2, <2>2 DEF EthState, EthLists
    <3>2. /\ ethEcus'[i] = ethEcus[i] /\ base'[i] = base[i] /\ overrides'[i] = overrides[i]
          /\ ethNext'[i] = ethNext[i] /\ steadyFrom'[i] = steadyFrom[i]
      <4> HIDE DEF n, node
      <4> QED BY <1>5, <2>2
    <3> QED BY <1>1, <3>1, <3>2 DEF EthNode, Eth!IsConfig
  <2> QED BY <2>1, <2>2
<1>7. EthLists'
  <2>1. n + 1 \in Nat
    BY <1>2
  <2> QED BY <1>5, <1>6, <2>1 DEF EthLists
<1>8. Waiting' /\ \A d \in DOMAIN latest' : Mail(ethEcus', latest'[d])
  BY <1>1, <1>2, FS_EmptySet DEF Waiting
<1> QED BY <1>1, <1>2, <1>7, <1>8 DEF EthState

\* What stays when the clock, the rules or the failed build are all that changes.
LEMMA EthIdle ==
  ASSUME EthState, UNCHANGED <<ethConfig, Eth!nodes, ethTime, held, latest, steadyFrom>>,
         ethPc' # "build" \/ ethPc' = ethPc
  PROVE  EthState'
<1>1. EthLists'
  BY DEF EthState, EthLists, EthNode, Eth!IsConfig, Eth!nodes
<1>2. Waiting'
  BY DEF EthState, Waiting, Eth!nodes
<1> QED BY <1>1, <1>2 DEF EthState, Eth!nodes

\* So does an override.
LEMMA EthSetField ==
  ASSUME EthState, NEW r \in Fields, Eth!SetField(r)
  PROVE  EthState'
<1>1. PICK i \in DOMAIN ethEcus :
        /\ overrides' = [overrides EXCEPT ![i] =
             [f \in DOMAIN @ \cup {r.field} |-> IF f = r.field THEN r.value ELSE @[f]]]
        /\ steadyFrom' = [steadyFrom EXCEPT ![i] = ethTime]
  BY DEF Eth!SetField, Eth!Addressed
<1>2. /\ ethPc = "running" /\ UNCHANGED <<ethPc, ethConfig, ethEcus, base, ethNext, ethTime, held, latest>>
  BY DEF Eth!SetField, Eth!network
<1> DEFINE n == Len(ethEcus)
<1>3. n \in Nat /\ ethTime \in Nat /\ DOMAIN ethEcus = 1 .. n
  BY ListsAre DEF EthState
<1>4. IsList(overrides, n) /\ IsList(steadyFrom, n)
  BY DEF EthState, EthLists
<1>5. IsList(overrides', n) /\ IsList(steadyFrom', n)
  <2> HIDE DEF n
  <2> QED BY <1>1, <1>4 DEF IsList
<1>6. ASSUME NEW j \in 1 .. n PROVE EthNode(j)'
  <2>1. EthNode(j)
    BY <1>3 DEF EthState, EthLists
  <2>2. \A f \in DOMAIN overrides'[j] : Numeric(overrides'[j][f])
    <3>1. CASE j # i
      <4>1. overrides'[j] = overrides[j]
        BY <1>1, <3>1
      <4> QED BY <2>1, <4>1 DEF EthNode
    <3>2. CASE j = i
      <4> DEFINE old == overrides[i]
                 new == [f \in DOMAIN old \cup {r.field} |-> IF f = r.field THEN r.value ELSE old[f]]
      <4>1. overrides'[j] = new
        <5>1. DOMAIN overrides = 1 .. n
          BY <1>4 DEF IsList
        <5> QED BY <1>1, <3>2, <5>1
      <4>2. Numeric(r.value) /\ \A f \in DOMAIN old : Numeric(old[f])
        BY <2>1, <3>2, EthernetAssumption DEF EthNode
      <4>3. \A f \in DOMAIN new : Numeric(new[f])
        <5> HIDE DEF old
        <5> QED BY <4>2
      <4> HIDE DEF new
      <4> QED BY <4>1, <4>3
    <3> QED BY <3>1, <3>2
  <2>3. steadyFrom'[j] \in Nat /\ steadyFrom'[j] <= ethTime
    <3>1. steadyFrom[j] \in Nat /\ steadyFrom[j] <= ethTime /\ j \in DOMAIN steadyFrom
      BY <1>4, <2>1 DEF EthNode, IsList
    <3>2. steadyFrom'[j] = IF j = i THEN ethTime ELSE steadyFrom[j]
      BY <1>1, <3>1
    <3> QED BY <1>3, <3>1, <3>2
  <2> QED BY <1>2, <2>1, <2>2, <2>3 DEF EthNode, Eth!IsConfig
<1>7. EthLists'
  <2>1. IsList(ethEcus', n) /\ IsList(base', n) /\ IsList(ethNext', n)
    BY <1>2 DEF EthState, EthLists
  <2> QED BY <1>2, <1>3, <1>5, <1>6, <2>1 DEF EthLists
<1>8. Waiting' /\ \A d \in DOMAIN latest' : Mail(ethEcus', latest'[d])
  BY <1>2 DEF EthState, Waiting
<1> QED BY <1>2, <1>7, <1>8 DEF EthState

\* So does an injected datagram.
LEMMA EthInject ==
  ASSUME EthState, NEW datagram \in Datagrams, Eth!Inject(datagram)
  PROVE  EthState'
<1> DEFINE m == [ecu |-> 0, dst |-> datagram.dst, payload |-> datagram.payload,
                 ts |-> ethTime, said |-> <<>>, sound |-> FALSE]
           n == Len(ethEcus)
<1>1. /\ ethPc = "running" /\ UNCHANGED <<ethPc, ethConfig, ethEcus, base, overrides, ethNext, ethTime, held>>
      /\ latest' = Eth!Record(latest, m)
      /\ steadyFrom' = [i \in DOMAIN ethEcus |->
           IF Eth!IsConfig(i) /\ ethEcus[i].message.dst = datagram.dst THEN ethTime ELSE steadyFrom[i]]
  BY DEF Eth!Inject, Eth!nodes
<1>2. n \in Nat /\ ethTime \in Nat /\ DOMAIN ethEcus = 1 .. n
  BY ListsAre DEF EthState
<1>3. IsList(steadyFrom', n)
  <2> HIDE DEF n
  <2> QED BY <1>1, <1>2 DEF IsList
<1>4. ASSUME NEW i \in 1 .. n PROVE EthNode(i)'
  <2>1. EthNode(i)
    BY <1>2 DEF EthState, EthLists
  <2>2. steadyFrom'[i] \in Nat /\ steadyFrom'[i] <= ethTime
    <3>1. steadyFrom'[i] = ethTime \/ steadyFrom'[i] = steadyFrom[i]
      BY <1>1, <1>2
    <3> QED BY <1>2, <2>1, <3>1 DEF EthNode
  <2> QED BY <1>1, <2>1, <2>2 DEF EthNode, Eth!IsConfig
<1>5. EthLists'
  <2>1. IsList(ethEcus', n) /\ IsList(base', n) /\ IsList(ethNext', n) /\ IsList(overrides', n)
    BY <1>1 DEF EthState, EthLists
  <2> QED BY <1>1, <1>2, <1>3, <1>4, <2>1 DEF EthLists
<1>6. Waiting'
  BY <1>1 DEF EthState, Waiting
<1>7. \A d \in DOMAIN latest' : Mail(ethEcus', latest'[d])
  <2>1. Mail(ethEcus', m)
    BY DEF Mail
  <2> HIDE DEF m
  <2>2. latest' = [d \in DOMAIN latest \cup {m.dst} |-> IF d = m.dst THEN m ELSE latest[d]]
    BY <1>1 DEF Eth!Record
  <2> QED BY <1>1, <2>1, <2>2 DEF EthState
<1> QED BY <1>1, <1>5, <1>6, <1>7 DEF EthState

\* So does the reset between two tests.
LEMMA EthReset ==
  ASSUME EthState, Eth!Reset
  PROVE  EthState'
<1>1. IsList(<<>>, 0)
  BY DEF IsList
<1>2. EthLists'
  BY <1>1 DEF Eth!Reset, EthLists
<1>3. Waiting'
  BY FS_EmptySet DEF Eth!Reset, Waiting
<1> QED BY <1>2, <1>3 DEF Eth!Reset, EthState

\* After a tick what is held back is still a node's datagram.
LEMMA TickWaiting ==
  ASSUME EthState, Eth!Tick
  PROVE  Waiting'
<1>1. /\ held' \in SUBSET Waits /\ ethTime' = ethTime + StepUs /\ ethEcus' = ethEcus
      /\ ethTime \in Nat
  BY TickIs DEF EthState
<1>2. IsFiniteSet(held')
  BY <1>1, StepFinite, FS_Subset
<1>3. ASSUME NEW h \in held'
      PROVE  /\ h.born \in Nat /\ h.born < ethTime'
             /\ h.message.ecu \in DOMAIN ethEcus' /\ Mail(ethEcus', h.message)
  <2>1. /\ h.born \in Nat /\ h.born <= ethTime
        /\ h.message.ecu \in DOMAIN ethEcus /\ Mail(ethEcus, h.message)
    BY <1>1, WaitsApart
  <2> QED BY <1>1, <2>1, ConfigVehicleAssumption
<1>4. \A g, h \in held' : g.born = h.born /\ g.message.ecu = h.message.ecu => g = h
  BY <1>1, WaitsApart
<1> QED BY <1>2, <1>3, <1>4 DEF Waiting

\* After a tick what a poll shows is a node's datagram.
LEMMA TickLatest ==
  ASSUME EthState, Eth!Tick, NEW d \in DOMAIN latest'
  PROVE  Mail(ethEcus', latest'[d])
<1> DEFINE late == {h \in DueNow : h.message.dst = d}
           now == {m \in Routed : m.dst = d}
           newest == Eth!Newest(d, Routed, DueNow)
<1>1. d \in Shown /\ latest'[d] = newest /\ ethEcus' = ethEcus
  BY TickIs
<1>2. /\ late # {} => \E h \in late : newest = h.message
      /\ late = {} /\ now # {} => newest \in now
      /\ late = {} /\ now = {} => newest = latest[d]
  BY NewestIs
<1>3. CASE late # {}
  <2>1. PICK h \in Waits : newest = h.message
    BY <1>2, <1>3 DEF DueNow
  <2> QED BY <1>1, <2>1, WaitsApart
<1>4. CASE late = {} /\ now # {}
  <2>1. newest \in Routed
    BY <1>2, <1>4
  <2>2. Mail(ethEcus, newest)
    <3> HIDE DEF newest
    <3> QED BY <2>1, RoutedIs DEF SentBy
  <2> QED BY <1>1, <2>2
<1>5. CASE late = {} /\ now = {}
  <2>1. d \in DOMAIN latest
    BY <1>1, <1>5 DEF Shown
  <2> QED BY <1>1, <1>2, <1>5, <2>1 DEF EthState
<1> QED BY <1>3, <1>4, <1>5

\* A tick leaves the nodes' lists side by side.
LEMMA TickLists ==
  ASSUME EthState, Eth!Tick
  PROVE  EthLists'
<1> DEFINE n == Len(ethEcus)
<1>1. /\ UNCHANGED <<ethEcus, base, overrides>> /\ ethTime' = ethTime + StepUs
      /\ ethNext' = [i \in DOMAIN ethEcus |-> Eth!NextUpdate(i)]
      /\ steadyFrom' = [i \in DOMAIN ethEcus |->
           IF Eth!IsConfig(i) /\ Eth!Disturbed(i) THEN ethTime' ELSE steadyFrom[i]]
  BY TickIs
<1>2. n \in Nat /\ ethTime \in Nat /\ DOMAIN ethEcus = 1 .. n
  BY ListsAre DEF EthState
<1>3. IsList(ethNext', n) /\ IsList(steadyFrom', n)
  <2> HIDE DEF n
  <2> QED BY <1>1, <1>2 DEF IsList
<1>4. ASSUME NEW i \in 1 .. n PROVE EthNode(i)'
  <2>1. EthNode(i)
    BY <1>2 DEF EthState, EthLists
  <2>2. ethNext'[i] \in Nat
    <3>1. ethNext'[i] = ethTime + ethEcus[i].period \/ ethNext'[i] = ethNext[i]
      BY <1>1, <1>2 DEF Eth!NextUpdate
    <3> QED BY <1>2, <2>1, <3>1 DEF EthNode
  <2>3. steadyFrom'[i] \in Nat /\ steadyFrom'[i] <= ethTime'
    <3>1. steadyFrom'[i] = ethTime' \/ steadyFrom'[i] = steadyFrom[i]
      BY <1>1, <1>2
    <3> QED BY <1>1, <1>2, <2>1, <3>1, ConfigVehicleAssumption DEF EthNode
  <2> QED BY <1>1, <2>1, <2>2, <2>3 DEF EthNode, Eth!IsConfig
<1>5. IsList(ethEcus', n) /\ IsList(base', n) /\ IsList(overrides', n)
  BY <1>1 DEF EthState, EthLists
<1> QED BY <1>1, <1>2, <1>3, <1>4, <1>5 DEF EthLists

\* Every step of the Ethernet vehicle keeps its state well formed.
LEMMA EthStateStep ==
  ASSUME EthState, Eth!Next
  PROVE  EthState'
<1>1. CASE Eth!Tick
  <2>1. /\ ethConfig' = ethConfig /\ ethPc' = "running" /\ ethTime' = ethTime + StepUs
        /\ ethTime \in Nat
    BY <1>1, TickIs DEF EthState
  <2>2. ethTime' \in Nat
    BY <2>1, ConfigVehicleAssumption
  <2> QED BY <1>1, <2>1, <2>2, TickWaiting, TickLatest, TickLists DEF EthState
<1>2. CASE Eth!Build
  <2>1. CASE Eth!BuildEcu
    BY <2>1, EthBuildEcu
  <2>2. CASE Eth!BuildFails \/ Eth!Built
    BY <2>2, EthIdle DEF Eth!BuildFails, Eth!Built, Eth!network
  <2> QED BY <1>2, <2>1, <2>2 DEF Eth!Build
<1>3. CASE \E f \in Faults : Eth!AddFault(f)
  BY <1>3, EthIdle DEF Eth!AddFault
<1> QED
  BY <1>1, <1>2, <1>3, EthReset, EthSetField, EthInject DEF Eth!Next

-----------------------------------------------------------------------------
(* What a poll shows.                                                      *)

\* A well-formed state shows what was set.
LEMMA PollsShow ==
  ASSUME EthState
  PROVE  Eth!PollShowsFields
<1> SUFFICES ASSUME NEW d \in DOMAIN latest, latest[d].sound,
                    Eth!Proper(ethEcus[latest[d].ecu].message),
                    NEW f \in Range(ethEcus[latest[d].ecu].message.fields)
             PROVE  LET read == Eth!DecodeField(ethEcus[latest[d].ecu].message,
                                                latest[d].payload, f.name)
                        said == latest[d].said[f.name]
                    IN  /\ read.result = "ok"
                        /\ IF "symbol" \in DOMAIN said THEN read.value.symbol = said.symbol
                           ELSE 2 * Eth!Distance(read.value.value, said.num)
                                  <= Eth!Distance(f.factor, 0)
  BY EthRange DEF Eth!PollShowsFields
<1> DEFINE m == ethEcus[latest[d].ecu].message
<1>1. /\ MessageDef(m) /\ Says(m, latest[d].said)
      /\ Eth!EncodeFields(m, latest[d].said) = Eth!Done(latest[d].payload)
  BY DEF EthState, Mail
<1>2. Reads(f, Eth!DecodeField(m, latest[d].payload, f.name), latest[d].said[f.name])
  <2> HIDE DEF m
  <2> QED BY <1>1, DecodesToSaid DEF m
<1> QED BY <1>2 DEF Reads

-----------------------------------------------------------------------------
(* When an override takes effect.                                          *)

\* A node whose values can be sent encodes them.
LEMMA SendableEncodes ==
  ASSUME NEW i, EthNode(i), Eth!IsConfig(i), Eth!AllSendable(i)
  PROVE  Eth!Encoded(i).result = "ok"
<1> DEFINE m == ethEcus[i].message
<1>1. MessageDef(m) /\ Eth!Current(i) = Eth!Given(i) /\ Says(m, Eth!Given(i))
  BY CurrentIs DEF EthNode
<1>2. AllFit(m, Eth!Given(i))
  BY EthRange DEF Eth!AllSendable, AllFit, FieldFits, FieldEnd
<1>3. ~Unresolved(m, Eth!Given(i))
  <2> SUFFICES ASSUME NEW f \in Range(m.fields)
               PROVE  Eth!RawOf(f, Eth!Given(i)[f.name]).result = "ok"
    BY DEF Unresolved
  <2>1. FieldDef(f) /\ Numeric(Eth!Given(i)[f.name])
    BY <1>1, FieldsAre DEF Says
  <2>2. Eth!Sendable(f, Eth!Given(i)[f.name])
    BY EthRange DEF Eth!AllSendable
  <2> QED BY <2>1, <2>2, SendableResolves
<1> DEFINE e == Eth!EncodeFields(m, Eth!Given(i))
<1>4. Eth!Encoded(i) = e
  BY <1>1 DEF Eth!Encoded
<1>5. e.result = "ok"
  <2> HIDE DEF m
  <2> QED BY <1>1, <1>2, <1>3, EncodeResult
<1> HIDE DEF e
<1> QED BY <1>4, <1>5

\* A step that nothing disturbs shows what the node sends.
LEMMA QuietStep ==
  ASSUME EthState, Eth!Tick, NEW i \in DOMAIN ethEcus, Eth!IsConfig(i), Eth!SoleSender(i),
         ~Eth!Disturbed(i), NEW d, d = ethEcus[i].message.dst
  PROVE  /\ Eth!Transmits(i) => d \in DOMAIN latest' /\ latest'[d] = Eth!Datagram(i)
         /\ ~Eth!Transmits(i) /\ d \in DOMAIN latest
              => d \in DOMAIN latest' /\ latest'[d] = latest[d]
<1> DEFINE late == {h \in DueNow : h.message.dst = d}
           now == {m \in Routed : m.dst = d}
           newest == Eth!Newest(d, Routed, DueNow)
<1>1. latest' = [e \in Shown |-> Eth!Newest(e, Routed, DueNow)]
  BY TickIs
<1>2. Eth!ActiveFor(d) = {} /\ \A h \in held : h.message.dst # d
  BY DEF Eth!Disturbed
<1>3. late = {}
  <2> SUFFICES ASSUME NEW h \in Waits, h.message.dst = d PROVE FALSE
    BY DEF DueNow
  <2> QED BY <1>2, WaitsIs
<1>4. /\ now # {} => newest \in now
      /\ now = {} => newest = latest[d]
  BY <1>3, NewestIs
<1>5. ASSUME NEW m \in now PROVE m = Eth!Datagram(i) /\ Eth!Transmits(i)
  <2>1. PICK j : SentBy(j, m) /\ (Eth!ActiveFor(m.dst) = {} => m = Eth!Datagram(j))
    BY RoutedIs
  <2>2. j = i
    BY <2>1 DEF SentBy, Eth!SoleSender
  <2> QED BY <1>2, <2>1, <2>2 DEF SentBy
<1>6. CASE Eth!Transmits(i)
  <2>1. Eth!Datagram(i) \in Pushed /\ Eth!Datagram(i).dst = d
    BY <1>6, DatagramIs DEF Pushed, SentBy
  <2>2. \A action : ~Eth!Acts(Eth!Datagram(i), action)
    BY <1>2, <2>1 DEF Eth!Acts, Eth!Decides
  <2>3. Eth!Datagram(i) \in Routed
    BY <2>1, <2>2 DEF Routed
  <2>4. Eth!Datagram(i) \in now /\ d \in Shown
    BY <2>1, <2>3 DEF Shown
  <2>5. newest = Eth!Datagram(i)
    <3> HIDE DEF now, newest
    <3> QED BY <1>4, <1>5, <2>4
  <2> QED BY <1>1, <1>6, <2>4, <2>5
<1>7. CASE ~Eth!Transmits(i) /\ d \in DOMAIN latest
  <2>1. now = {}
    <3> HIDE DEF now
    <3> QED BY <1>5, <1>7
  <2>2. d \in Shown
    BY <1>7 DEF Shown
  <2> QED BY <1>1, <1>4, <1>7, <2>1, <2>2
<1> QED BY <1>6, <1>7

\* The last time a node sent, or would have: a period before the next one.
Paced(i) ==
  Eth!IsConfig(i) =>
    IF ethTime = 0 THEN ethNext[i] = 0
    ELSE /\ ethNext[i] - ethEcus[i].period <= ethTime - StepUs
         /\ \/ ethTime - StepUs < ethNext[i]
            \/ ethEcus[i].period = 0 /\ ethNext[i] = ethTime - StepUs

\* Undisturbed since then, an endpoint shows what was sent then.
Fresh(i) ==
  LET d == ethEcus[i].message.dst
      sent == ethNext[i] - ethEcus[i].period
  IN  /\ ethTime # 0
      /\ Eth!IsConfig(i) /\ Eth!AllSendable(i) /\ Eth!SoleSender(i)
      /\ steadyFrom[i] <= sent
      => /\ d \in DOMAIN latest
         /\ latest[d].said = Eth!Given(i) /\ latest[d].sound
         /\ latest[d].ts = sent

EthPace == \A i \in DOMAIN ethEcus : Paced(i) /\ Fresh(i)

\* A tick keeps a node's pace and the age of what it shows.
LEMMA TickPaces ==
  ASSUME EthState, Eth!Tick, NEW i \in DOMAIN ethEcus, Paced(i), Fresh(i)
  PROVE  Paced(i)' /\ Fresh(i)'
<1> DEFINE t == ethTime  p == ethEcus[i].period  n == ethNext[i]
           d == ethEcus[i].message.dst
<1>1. /\ UNCHANGED <<ethEcus, base, overrides>> /\ ethTime' = t + StepUs
      /\ ethNext'[i] = Eth!NextUpdate(i)
      /\ steadyFrom'[i] = IF Eth!IsConfig(i) /\ Eth!Disturbed(i) THEN ethTime' ELSE steadyFrom[i]
  BY TickIs
<1>2. /\ t \in Nat /\ p \in Nat /\ n \in Nat /\ StepUs \in Nat \ {0} /\ EthNode(i)
      /\ steadyFrom[i] \in Nat
  BY ListsAre, ConfigVehicleAssumption DEF EthState, EthNode
<1> SUFFICES ASSUME Eth!IsConfig(i) PROVE Paced(i)' /\ Fresh(i)'
  BY <1>1 DEF Paced, Fresh, Eth!IsConfig
<1>3. /\ t >= n => ethNext'[i] = t + p
      /\ t < n => ethNext'[i] = n /\ t # 0
      /\ t # 0 => n - p <= t - StepUs
  <2>1. ethNext'[i] = IF t >= n THEN t + p ELSE n
    BY <1>1 DEF Eth!NextUpdate, Eth!Due
  <2>2. t = 0 => n = 0
    BY DEF Paced
  <2>3. t # 0 => n - p <= t - StepUs
    BY DEF Paced
  <2> HIDE DEF t, p, n
  <2> QED BY <1>2, <2>1, <2>2, <2>3
<1> DEFINE sent == ethNext'[i] - p
<1>4. /\ ethTime' # 0 /\ ethTime' - StepUs = t /\ sent \in Int
      /\ sent <= t
      /\ t < ethNext'[i] \/ (p = 0 /\ ethNext'[i] = t)
      /\ t >= n => sent = t
      /\ t < n => sent = n - p /\ t # 0
  <2>1. ethTime' = t + StepUs
    BY <1>1
  <2> DEFINE q == ethNext'[i]
  <2>2. /\ t >= n => q = t + p
        /\ t < n => q = n /\ t # 0
        /\ t # 0 => n - p <= t - StepUs
    BY <1>3
  <2> HIDE DEF t, p, n, q
  <2> QED BY <1>2, <2>1, <2>2 DEF q
<1>5. Paced(i)'
  <2>1. ethEcus'[i].period = p
    BY <1>1
  <2> HIDE DEF t, p, n
  <2> QED BY <1>4, <2>1 DEF Paced
<1>6. ASSUME Eth!AllSendable(i)', Eth!SoleSender(i)', steadyFrom'[i] <= sent
      PROVE  /\ d \in DOMAIN latest'
             /\ latest'[d].said = Eth!Given(i)' /\ latest'[d].sound
             /\ latest'[d].ts = sent
  <2>1. Eth!Given(i)' = Eth!Given(i)
    BY <1>1 DEF Eth!Given
  <2>2. Eth!AllSendable(i) /\ Eth!SoleSender(i)
    BY <1>1, <1>6, <2>1 DEF Eth!AllSendable, Eth!SoleSender, Eth!IsConfig
  <2>3. ~Eth!Disturbed(i) /\ steadyFrom'[i] = steadyFrom[i]
    <3>1. Eth!Disturbed(i) => steadyFrom'[i] = t + StepUs
      BY <1>1
    <3> HIDE DEF sent, t, p, n
    <3> QED BY <1>1, <1>2, <1>4, <1>6, <3>1
  <2>4. CASE t >= n
    <3>1. Eth!Transmits(i)
      BY <1>2, <2>2, <2>4, SendableEncodes DEF Eth!Transmits, Eth!Due
    <3>2. d \in DOMAIN latest' /\ latest'[d] = Eth!Datagram(i)
      BY <2>2, <2>3, <3>1, QuietStep
    <3> QED BY <1>4, <2>1, <2>4, <3>1, <3>2, DatagramIs
  <2>5. CASE t < n
    <3>1. ~Eth!Transmits(i)
      <4> HIDE DEF t, n
      <4>1. ~(t >= n)
        BY <1>2, <2>5
      <4> QED BY <4>1 DEF Eth!Transmits, Eth!Due, t, n
    <3>2. /\ d \in DOMAIN latest
          /\ latest[d].said = Eth!Given(i) /\ latest[d].sound
          /\ latest[d].ts = n - p
      BY <1>4, <1>6, <2>2, <2>3, <2>5 DEF Fresh
    <3>3. d \in DOMAIN latest' /\ latest'[d] = latest[d]
      BY <2>2, <2>3, <3>1, <3>2, QuietStep
    <3> QED BY <1>4, <2>1, <2>5, <3>2, <3>3
  <2>6. t >= n \/ t < n
    <3> HIDE DEF t, n
    <3> QED BY <1>2
  <2> QED BY <2>4, <2>5, <2>6
<1>7. Fresh(i)'
  <2>1. ethEcus'[i].message.dst = d /\ ethEcus'[i].period = p
    BY <1>1
  <2> HIDE DEF d, p
  <2> QED BY <1>6, <2>1 DEF Fresh
<1> QED BY <1>5, <1>7

\* What leaves the pace alone: nothing the node sends by or shows changes.
LEMMA SamePace ==
  ASSUME NEW i, Paced(i), Fresh(i),
         UNCHANGED <<ethEcus, base, ethNext, ethTime>>,
         overrides'[i] = overrides[i] /\ steadyFrom'[i] = steadyFrom[i],
         Eth!IsConfig(i) => LET d == ethEcus[i].message.dst
                            IN  d \in DOMAIN latest => d \in DOMAIN latest' /\ latest'[d] = latest[d]
  PROVE  Paced(i)' /\ Fresh(i)'
<1>1. Eth!Given(i)' = Eth!Given(i) /\ Eth!IsConfig(i)' = Eth!IsConfig(i)
  BY DEF Eth!Given, Eth!IsConfig
<1>2. Eth!AllSendable(i)' = Eth!AllSendable(i) /\ Eth!SoleSender(i)' = Eth!SoleSender(i)
  BY <1>1 DEF Eth!AllSendable, Eth!SoleSender, Eth!IsConfig
<1>3. Paced(i)'
  BY <1>1 DEF Paced
<1>4. Fresh(i)'
  BY <1>1, <1>2 DEF Fresh
<1> QED BY <1>3, <1>4

\* Disturbed at this moment, a node has yet to send.
LEMMA Yet ==
  ASSUME NEW i, EthNode(i)', Paced(i)', ethTime' \in Nat, Eth!IsConfig(i)', steadyFrom'[i] = ethTime'
  PROVE  Fresh(i)'
<1>1. ethNext'[i] \in Nat /\ ethEcus'[i].period \in Nat
  BY DEF EthNode
<1>2. ethTime' # 0 => ethNext'[i] - ethEcus'[i].period <= ethTime' - StepUs
  BY DEF Paced
<1>3. ethTime' # 0 => ~(steadyFrom'[i] <= ethNext'[i] - ethEcus'[i].period)
  BY <1>1, <1>2, ConfigVehicleAssumption
<1> QED BY <1>3 DEF Fresh

\* A new ECU starts its pace.
LEMMA BuildPace ==
  ASSUME EthState, EthPace, Eth!BuildEcu
  PROVE  EthPace'
<1> DEFINE n == Len(ethEcus)
           ecu == ethConfig[n + 1]
           node == [name |-> ecu.name, kind |-> ecu.kind,
                    message |-> Eth!MessageOf(ecu), period |-> ecu.period]
<1>1. /\ ethEcus' = Append(ethEcus, node) /\ ethNext' = Append(ethNext, 0)
      /\ ethTime' = 0 /\ ethTime = 0
  BY DEF Eth!BuildEcu, Eth!network, EthState
<1>2. n \in Nat /\ IsList(ethEcus, n) /\ IsList(ethNext, n)
  BY DEF EthState, EthLists
<1> HIDE DEF node, n
<1>3. ethEcus' = Longer(ethEcus, node, n) /\ ethNext' = Longer(ethNext, 0, n)
  BY <1>1, <1>2, AppendIs
<1>4. ASSUME NEW i \in DOMAIN ethEcus' PROVE Paced(i)' /\ Fresh(i)'
  <2>1. i \in 1 .. n + 1
    BY <1>3 DEF Longer
  <2>2. CASE i = n + 1
    <3>1. ethNext'[i] = 0
      BY <1>3, <2>1, <2>2 DEF Longer
    <3> QED BY <1>1, <3>1 DEF Paced, Fresh
  <2>3. CASE i # n + 1
    <3>1. i \in DOMAIN ethEcus /\ ethEcus'[i] = ethEcus[i] /\ ethNext'[i] = ethNext[i]
      BY <1>2, <1>3, <2>1, <2>3 DEF Longer, IsList
    <3> QED BY <1>1, <3>1 DEF EthPace, Paced, Fresh, Eth!IsConfig
  <2> QED BY <2>2, <2>3
<1> QED BY <1>4 DEF EthPace

\* Every step of the Ethernet vehicle keeps the pace.
LEMMA EthPaceStep ==
  ASSUME EthState, EthState', EthPace, Eth!Next
  PROVE  EthPace'
<1>1. CASE Eth!Tick
  <2>1. DOMAIN ethEcus' = DOMAIN ethEcus
    BY <1>1, TickIs
  <2> QED BY <1>1, <2>1, TickPaces DEF EthPace
<1>2. CASE UNCHANGED <<Eth!nodes, ethTime, latest, steadyFrom>>
  <2>1. ASSUME NEW i \in DOMAIN ethEcus PROVE Paced(i)' /\ Fresh(i)'
    BY <1>2, SamePace DEF EthPace, Eth!nodes
  <2> QED BY <1>2, <2>1 DEF EthPace, Eth!nodes
<1>3. CASE Eth!Build
  BY <1>2, <1>3, BuildPace DEF Eth!Build, Eth!BuildFails, Eth!Built, Eth!network
<1>4. CASE \E f \in Faults : Eth!AddFault(f)
  BY <1>2, <1>4 DEF Eth!AddFault
<1>5. CASE Eth!Reset
  BY <1>5 DEF Eth!Reset, EthPace
<1>6. ASSUME NEW r \in Fields, Eth!SetField(r) PROVE EthPace'
  <2>1. PICK i \in DOMAIN ethEcus :
          /\ overrides' = [overrides EXCEPT ![i] =
               [f \in DOMAIN @ \cup {r.field} |-> IF f = r.field THEN r.value ELSE @[f]]]
          /\ steadyFrom' = [steadyFrom EXCEPT ![i] = ethTime]
    BY <1>6 DEF Eth!SetField, Eth!Addressed
  <2>2. UNCHANGED <<ethEcus, base, ethNext, ethTime, latest>>
    BY <1>6 DEF Eth!SetField, Eth!network
  <2>3. DOMAIN steadyFrom = DOMAIN ethEcus /\ DOMAIN overrides = DOMAIN ethEcus
    BY ListsAre DEF EthState
  <2>4. ASSUME NEW j \in DOMAIN ethEcus PROVE Paced(j)' /\ Fresh(j)'
    <3>1. Paced(j) /\ Fresh(j)
      BY DEF EthPace
    <3>2. CASE j # i
      <4>1. overrides'[j] = overrides[j] /\ steadyFrom'[j] = steadyFrom[j]
        BY <2>1, <3>2
      <4> QED BY <2>2, <3>1, <4>1, SamePace
    <3>3. CASE j = i
      <4>1. steadyFrom'[j] = ethTime'
        BY <2>1, <2>2, <2>3, <3>3
      <4>2. Paced(j)'
        BY <2>2, <3>1 DEF Paced, Eth!IsConfig
      <4>3. EthNode(j)' /\ ethTime' \in Nat
        BY <2>2 DEF EthState, EthLists, IsList
      <4>4. Eth!IsConfig(j)' => Fresh(j)'
        BY <4>1, <4>2, <4>3, Yet
      <4> QED BY <4>2, <4>4 DEF Fresh
    <3> QED BY <3>2, <3>3
  <2> QED BY <2>2, <2>4 DEF EthPace
<1>7. ASSUME NEW datagram \in Datagrams, Eth!Inject(datagram) PROVE EthPace'
  <2>1. /\ UNCHANGED <<ethEcus, base, overrides, ethNext, ethTime>>
        /\ steadyFrom' = [i \in DOMAIN ethEcus |->
             IF Eth!IsConfig(i) /\ ethEcus[i].message.dst = datagram.dst
             THEN ethTime ELSE steadyFrom[i]]
    BY <1>7 DEF Eth!Inject, Eth!nodes
  <2>2. \A d \in DOMAIN latest : d # datagram.dst => d \in DOMAIN latest' /\ latest'[d] = latest[d]
    BY <1>7 DEF Eth!Inject, Eth!Record
  <2>3. ASSUME NEW j \in DOMAIN ethEcus PROVE Paced(j)' /\ Fresh(j)'
    <3>1. Paced(j) /\ Fresh(j)
      BY DEF EthPace
    <3>2. CASE Eth!IsConfig(j) /\ ethEcus[j].message.dst = datagram.dst
      <4>1. steadyFrom'[j] = ethTime' /\ Eth!IsConfig(j)'
        BY <2>1, <3>2 DEF Eth!IsConfig
      <4>2. Paced(j)'
        BY <2>1, <3>1 DEF Paced, Eth!IsConfig
      <4>3. EthNode(j)' /\ ethTime' \in Nat
        BY <2>1 DEF EthState, EthLists, IsList
      <4> QED BY <4>1, <4>2, <4>3, Yet
    <3>3. CASE ~(Eth!IsConfig(j) /\ ethEcus[j].message.dst = datagram.dst)
      <4>1. steadyFrom'[j] = steadyFrom[j]
        BY <2>1, <3>3
      <4> QED BY <2>1, <2>2, <3>1, <3>3, <4>1, SamePace
    <3> QED BY <3>2, <3>3
  <2> QED BY <2>1, <2>3 DEF EthPace
<1> QED BY <1>1, <1>3, <1>4, <1>5, <1>6, <1>7 DEF Eth!Next

\* The pace brings an override to the poll in time.
LEMMA InTime ==
  ASSUME EthState, EthPace
  PROVE  Eth!OverridesTakeEffect
<1> SUFFICES ASSUME NEW i \in DOMAIN ethEcus,
                    Eth!IsConfig(i), Eth!AllSendable(i), Eth!SoleSender(i),
                    ethTime - steadyFrom[i] >= ethEcus[i].period + StepUs,
                    NEW d, d = ethEcus[i].message.dst,
                    NEW age, age = ethTime - StepUs - latest[d].ts
             PROVE  /\ d \in DOMAIN latest
                    /\ latest[d].said = Eth!Given(i) /\ latest[d].sound
                    /\ age = 0 \/ age < ethEcus[i].period
  BY DEF Eth!OverridesTakeEffect
<1>1. Paced(i) /\ Fresh(i) /\ EthNode(i) /\ ethTime \in Nat
  BY ListsAre DEF EthPace, EthState
<1>2. /\ ethTime # 0 /\ steadyFrom[i] <= ethNext[i] - ethEcus[i].period
      /\ LET sent == ethNext[i] - ethEcus[i].period
         IN  ethTime - StepUs - sent = 0 \/ ethTime - StepUs - sent < ethEcus[i].period
  BY <1>1, ConfigVehicleAssumption DEF Paced, EthNode
<1>3. /\ d \in DOMAIN latest
      /\ latest[d].said = Eth!Given(i) /\ latest[d].sound
      /\ latest[d].ts = ethNext[i] - ethEcus[i].period
  BY <1>1, <1>2 DEF Fresh
<1> QED BY <1>2, <1>3

-----------------------------------------------------------------------------
(* The theorems about Ethernet.                                            *)

EthInv == bus = "ethernet" => EthState /\ EthPace

\* The Ethernet vehicle keeps its state and its pace.
LEMMA EthInvariant == VehiclesSpec => []EthInv
<1>1. CanInit \/ EthInit => EthInv
  <2>1. CanInit => EthInv
    BY DEF CanInit, EthInv
  <2>2. EthInit => EthInv
    <3>1. ASSUME EthInit PROVE EthState /\ EthPace
      <4>1. Eth!Init /\ ethEcus = <<>>
        BY <3>1 DEF EthInit, Eth!Init
      <4>2. EthState
        BY <4>1, EthInitially
      <4> QED BY <4>1, <4>2 DEF EthPace
    <3> QED BY <3>1 DEF EthInv
  <2> QED BY <2>1, <2>2
<1>2. EthInv /\ [CanNext \/ EthNext]_both => EthInv'
  <2> SUFFICES ASSUME EthInv, [CanNext \/ EthNext]_both PROVE EthInv'
    OBVIOUS
  <2>1. CASE CanNext
    BY <2>1 DEF CanNext, EthInv
  <2>2. CASE EthNext
    BY <2>2, EthStateStep, EthPaceStep DEF EthNext, EthInv
  <2>3. CASE UNCHANGED both
    <3>1. bus' = bus /\ UNCHANGED ethVars
      BY <2>3 DEF both
    <3>2. EthState /\ EthPace => EthState'
      BY <3>1, EthIdle DEF ethVars, Eth!nodes
    <3>3. EthPace => EthPace'
      BY <3>1, SamePace DEF ethVars, EthPace
    <3> QED BY <3>1, <3>2, <3>3 DEF EthInv
  <2> QED BY <2>1, <2>2, <2>3
<1> QED BY <1>1, <1>2, PTL DEF VehiclesSpec

\* What a poll of the Ethernet vehicle returns decodes to what was set when it was
\* sent, however many calls, faults and delays lie between (udp.rs, poll_msg).
THEOREM PollsShowFields == VehiclesSpec => []PollShowsFields
<1>1. EthInv => PollShowsFields
  BY PollsShow DEF EthInv, PollShowsFields
<1> QED BY <1>1, EthInvariant, PTL

\* An override reaches the wire within one period and one step of the clock, unless
\* a fault stands in its way (embrig-net's ecu.rs, update; udp.rs, set_field).
THEOREM OverridesDo == VehiclesSpec => []OverridesTakeEffect
<1>1. EthInv => OverridesTakeEffect
  BY InTime DEF EthInv, OverridesTakeEffect
<1> QED BY <1>1, EthInvariant, PTL

-----------------------------------------------------------------------------
(* The CAN vehicle: the parsed file, the nodes and their pace.             *)

SignalOk(s) ==
  /\ s = [name |-> s.name, start |-> s.start, length |-> s.length, order |-> s.order,
          signed |-> s.signed, factor |-> s.factor, offset |-> s.offset, table |-> s.table]
  /\ s.start \in Nat /\ s.length \in 1 .. 63
  /\ s.order \in {"intel", "motorola"} /\ s.signed \in BOOLEAN
  /\ s.factor \in Int /\ s.offset \in Int
  /\ s.table = [raw \in DOMAIN s.table |-> s.table[raw]]
  /\ DOMAIN s.table \subseteq Int /\ IsFiniteSet(DOMAIN s.table)

MessageOk(m) ==
  /\ m = [id |-> m.id, name |-> m.name, dlc |-> m.dlc, signals |-> m.signals]
  /\ m.id \in Nat /\ m.dlc \in Nat
  /\ Len(m.signals) \in Nat /\ IsList(m.signals, Len(m.signals))
  /\ \A i \in 1 .. Len(m.signals) : SignalOk(m.signals[i])

\* What a node may hold: a value its signal's raw number fits.
Holds(m, name, value) ==
  /\ value \in Int
  /\ Defines(m, name)
  /\ RawFor(m, name, value).result = "ok"

CanNode(i) ==
  /\ ecus[i].period \in Nat /\ next[i] \in Nat
  /\ IsConfig(i) =>
       /\ MessageOk(ecus[i].message)
       /\ \A name \in DOMAIN values[i] : Holds(ecus[i].message, name, values[i][name])
       /\ Sound(ecus[i].message) =>
            IF sentAt[i] = -1 THEN next[i] = 0
            ELSE sentAt[i] \in Nat /\ next[i] = sentAt[i] + ecus[i].period

CanLists ==
  LET n == Len(ecus)
  IN  /\ n \in Nat
      /\ IsList(ecus, n) /\ IsList(values, n) /\ IsList(next, n) /\ IsList(sentAt, n)
      /\ \A i \in 1 .. n : CanNode(i)

NetworkOk ==
  /\ DOMAIN network \subseteq Nat
  /\ network = [id \in DOMAIN network |-> network[id]]
  /\ \A id \in DOMAIN network : MessageOk(network[id])

CanState ==
  /\ file \in Files /\ line \in Nat \ {0}
  /\ current = -1 \/ current \in DOMAIN network
  /\ NetworkOk
  /\ config \in Vehicles /\ time \in Nat
  /\ CanLists

-----------------------------------------------------------------------------
(* The codec, on messages like that.                                       *)

\* The signal a name stands for.
LEMMA SignalIs ==
  ASSUME NEW m, MessageOk(m), NEW name, Defines(m, name)
  PROVE  \E i \in 1 .. Len(m.signals) :
           /\ SignalOf(m, name) = m.signals[i] /\ m.signals[i].name = name
           /\ \A j \in 1 .. i - 1 : m.signals[j].name # name
<1> DEFINE n == Len(m.signals)
           found == {i \in 1 .. n : m.signals[i].name = name}
           First(i) == m.signals[i].name = name /\ \A j \in 1 .. i - 1 : m.signals[j].name # name
<1>1. n \in Nat /\ DOMAIN m.signals = 1 .. n
  BY DEF MessageOk, IsList
<1>2. found # {} /\ found \in SUBSET Nat
  BY <1>1 DEF Defines, Range
<1>3. PICK i \in found : \A j \in found : i <= j
  <2> HIDE DEF found
  <2> QED BY <1>2, LeastOf
<1>4. First(i) /\ i \in 1 .. n
  <2>1. ASSUME NEW j \in 1 .. i - 1 PROVE m.signals[j].name # name
    <3>1. j \in 1 .. n /\ ~(i <= j)
      BY <1>1
    <3> QED BY <1>3, <3>1
  <2> QED BY <1>3, <2>1
<1>5. SignalOf(m, name) = m.signals[CHOOSE k \in DOMAIN m.signals : First(k)]
  BY DEF SignalOf
<1> DEFINE c == CHOOSE k \in DOMAIN m.signals : First(k)
<1>6. c \in DOMAIN m.signals /\ First(c)
  <2> HIDE DEF First
  <2> QED BY <1>1, <1>4
<1> HIDE DEF c
<1> QED BY <1>1, <1>5, <1>6 DEF c

\* The signals of a message as a list and as a set.
LEMMA SignalsAre ==
  ASSUME NEW m, MessageOk(m)
  PROVE  /\ DOMAIN m.signals = 1 .. Len(m.signals) /\ Len(m.signals) \in Nat
         /\ Range(m.signals) = {m.signals[i] : i \in 1 .. Len(m.signals)}
         /\ \A s \in Range(m.signals) : SignalOk(s)
BY DEF MessageOk, IsList, Range

\* The raw value of a signal the message defines.
LEMMA RawForIs ==
  ASSUME NEW m, MessageOk(m), NEW name, Defines(m, name), NEW value
  PROVE  /\ SignalOf(m, name) \in Range(m.signals) /\ SignalOk(SignalOf(m, name))
         /\ RawFor(m, name, value) = PhysicalToRaw(SignalOf(m, name), value)
<1>1. PICK i \in 1 .. Len(m.signals) : SignalOf(m, name) = m.signals[i]
  BY SignalIs
<1>2. SignalOf(m, name) \in Range(m.signals)
  BY <1>1, SignalsAre
<1> QED BY <1>2, SignalsAre DEF RawFor

\* The number a literal stands for.
LEMMA PhysicalIs ==
  ASSUME NEW m, MessageOk(m), NEW name, NEW literal, Numeric(literal), Encodable(m, name, literal)
  PROVE  Holds(m, name, Physical(m, name, literal).value)
<1> DEFINE v == Physical(m, name, literal)
<1>1. v.result = "ok" /\ CheckValue(m, name, v.value)
  BY DEF Encodable
<1>2. v.value \in Int
  <2>1. CASE "symbol" \notin DOMAIN literal
    BY <2>1 DEF Physical, Numeric, Done
  <2>2. CASE "symbol" \in DOMAIN literal
    <3> DEFINE s == SignalOf(m, name)
               raws == {r \in DOMAIN s.table : s.table[r] = literal.symbol}
               least == CHOOSE r \in raws : \A q \in raws : r <= q
    <3>1. v = PhysicalForSymbol(m, name, literal.symbol)
      BY <2>2 DEF Physical
    <3>2. Defines(m, name) /\ raws # {} /\ v = Done(RawToPhysical(s, least))
      BY <1>1, <3>1 DEF PhysicalForSymbol, Err
    <3>3. SignalOk(s)
      BY <3>2, RawForIs
    <3>4. IsFiniteSet(raws) /\ raws \in SUBSET Int
      BY <3>3, FS_Subset DEF SignalOk
    <3>5. least \in Int
      <4>1. \E r \in raws : \A q \in raws : r <= q
        <5> HIDE DEF raws
        <5> QED BY <3>2, <3>4, LeastInt
      <4> HIDE DEF raws
      <4>2. least \in raws
        BY <4>1
      <4> QED BY <3>4, <4>2
    <3> HIDE DEF least, s
    <3>6. RawToPhysical(s, least) \in Int
      BY <3>3, <3>5 DEF RawToPhysical, SignalOk
    <3> QED BY <3>2, <3>6 DEF Done
  <2> QED BY <2>1, <2>2
<1> HIDE DEF v
<1> QED BY <1>1, <1>2 DEF CheckValue, Holds, v

-----------------------------------------------------------------------------
(* Which bits a signal has.                                                *)

\* The bit of the value in the order a receiver counts them.
Linear(s, i) == 8 * (s.start \div 8) + 7 - (s.start % 8) + s.length - 1 - i
Flat(s, i) ==
  IF s.order = "intel" THEN s.start + i
  ELSE 8 * (Linear(s, i) \div 8) + (7 - (Linear(s, i) % 8))

\* How the positions of a signal follow one another (embrig-dbc's codec.rs, positions).
LEMMA FlatIs ==
  ASSUME NEW s, SignalOk(s), NEW i \in 0 .. s.length - 1
  PROVE  /\ Linear(s, i) \in Nat /\ Flat(s, i) \in Nat
         /\ s.order # "intel" =>
              /\ i = s.length - 1 => Flat(s, i) = s.start
              /\ i # s.length - 1 =>
                   Flat(s, i) = IF Flat(s, i + 1) % 8 = 0 THEN Flat(s, i + 1) + 15
                                ELSE Flat(s, i + 1) - 1
              /\ Flat(s, i) \div 8 = Linear(s, i) \div 8
              /\ Flat(s, i) % 8 = 7 - (Linear(s, i) % 8)
<1>1. s.start \in Nat /\ s.length \in Nat /\ i \in Nat /\ i <= s.length - 1
  BY DEF SignalOk
<1> DEFINE st == s.start  q == st \div 8  r == st % 8  n == s.length
           l == 8 * q + (7 - r) + ((n - 1) - i)
<1>2. Linear(s, i) = l /\ (i # n - 1 => Linear(s, i + 1) = l - 1)
  BY <1>1 DEF Linear
<1>3. q \in Nat /\ r \in 0 .. 7 /\ st = 8 * q + r
  BY <1>1
<1> HIDE DEF st, n, q, r
<1>4. l \in Nat /\ (i = n - 1 => l = 8 * q + (7 - r)) /\ (i # n - 1 => l - 1 \in Nat)
  BY <1>1, <1>3 DEF n
<1> HIDE DEF l
<1>5. Flat(s, i) = IF s.order = "intel" THEN st + i ELSE 8 * (l \div 8) + (7 - (l % 8))
  BY <1>2 DEF Flat, st
<1>6. i # n - 1 /\ s.order # "intel" =>
        Flat(s, i + 1) = 8 * ((l - 1) \div 8) + (7 - ((l - 1) % 8))
  BY <1>2 DEF Flat
<1> DEFINE a == l \div 8  b == l % 8
<1>7. a \in Nat /\ b \in 0 .. 7 /\ l = 8 * a + b
  BY <1>4
<1>8. i = n - 1 => a = q /\ b = 7 - r
  BY <1>3, <1>4
<1> DEFINE c == (l - 1) \div 8  d == (l - 1) % 8
<1>9. i # n - 1 => /\ b = 0 => c = a - 1 /\ d = 7
                   /\ b # 0 => c = a /\ d = b - 1
  BY <1>4
<1> HIDE DEF a, b, c, d
<1>10. Flat(s, i) \in Nat
  BY <1>1, <1>3, <1>5, <1>7 DEF a, b
<1>11. ASSUME s.order # "intel"
       PROVE  /\ i = n - 1 => Flat(s, i) = st
              /\ i # n - 1 =>
                   Flat(s, i) = IF Flat(s, i + 1) % 8 = 0 THEN Flat(s, i + 1) + 15
                                ELSE Flat(s, i + 1) - 1
              /\ Flat(s, i) \div 8 = a
              /\ Flat(s, i) % 8 = 7 - b
  <2> DEFINE f == Flat(s, i)  e == Flat(s, i + 1)
  <2>1. f = 8 * a + (7 - b) /\ (i # n - 1 => e = 8 * c + (7 - d))
    BY <1>5, <1>6, <1>11 DEF a, b, c, d
  <2> HIDE DEF f, e
  <2>2. f \div 8 = a /\ f % 8 = 7 - b
    BY <1>7, <2>1
  <2>3. i = n - 1 => f = st
    BY <1>3, <1>7, <1>8, <2>1
  <2>4. i # n - 1 => f = IF e % 8 = 0 THEN e + 15 ELSE e - 1
    BY <1>7, <1>9, <2>1
  <2> QED BY <2>2, <2>3, <2>4 DEF f, e
<1> QED BY <1>2, <1>4, <1>10, <1>11 DEF a, b, n, st

\* The closed form of the bit positions.
LEMMA PositionsAre ==
  ASSUME NEW s, SignalOk(s)
  PROVE  Positions(s) = [i \in 0 .. s.length - 1 |-> <<Flat(s, i) \div 8, Flat(s, i) % 8>>]
<1> DEFINE I == 0 .. s.length - 1
           Iter(h) == [i \in I |->
                         IF s.order = "intel" THEN s.start + i
                         ELSE IF i = s.length - 1 THEN s.start
                         ELSE IF h[i + 1] % 8 = 0 THEN h[i + 1] + 15
                         ELSE h[i + 1] - 1]
           p == CHOOSE h : h = Iter(h)
           g == [i \in I |-> Flat(s, i)]
<1>1. Positions(s) = [i \in I |-> <<p[i] \div 8, p[i] % 8>>]
  BY DEF Positions
<1>2. s.length \in Nat
  BY DEF SignalOk
<1>3. g = Iter(g)
  <2>1. ASSUME NEW i \in I PROVE g[i] = Iter(g)[i]
    <3>1. i # s.length - 1 => i + 1 \in I
      BY <1>2
    <3>2. s.order = "intel" => Flat(s, i) = s.start + i
      BY DEF Flat
    <3> QED BY <3>1, <3>2, FlatIs
  <2> HIDE DEF I
  <2> QED BY <2>1
<1>4. p = Iter(p)
  <2> HIDE DEF g, Iter
  <2> QED BY <1>3
<1> HIDE DEF p
<1>5. \A i \in I : p[i] = Flat(s, i)
  <2>1. CASE s.order = "intel"
    BY <1>4, <2>1 DEF Flat
  <2>2. CASE s.order # "intel"
    <3> DEFINE Same == {k \in Nat : k < s.length => p[s.length - 1 - k] = Flat(s, s.length - 1 - k)}
    <3>1. 0 \in Same
      <4>1. s.length - 1 \in I /\ s.length - 1 - 0 = s.length - 1
        BY <1>2 DEF SignalOk
      <4> HIDE DEF I
      <4> QED BY <1>4, <2>2, <4>1, FlatIs DEF I
    <3>2. ASSUME NEW k \in Nat, k \in Same PROVE k + 1 \in Same
      <4> SUFFICES ASSUME k + 1 < s.length
                   PROVE  p[s.length - 1 - (k + 1)] = Flat(s, s.length - 1 - (k + 1))
        OBVIOUS
      <4> DEFINE i == s.length - 1 - (k + 1)
      <4>1. i \in I /\ i # s.length - 1 /\ i + 1 = s.length - 1 - k /\ k < s.length
        BY <1>2
      <4>2. p[i + 1] = Flat(s, i + 1)
        BY <3>2, <4>1
      <4> HIDE DEF i, Same
      <4>3. p[i] = IF p[i + 1] % 8 = 0 THEN p[i + 1] + 15 ELSE p[i + 1] - 1
        BY <1>4, <2>2, <4>1
      <4>4. p[i] = Flat(s, i)
        BY <2>2, <4>1, <4>2, <4>3, FlatIs
      <4> QED BY <4>4 DEF i
    <3>3. \A k \in Nat : k \in Same
      <4> HIDE DEF Same
      <4> QED BY <3>1, <3>2, Induction
    <3>4. ASSUME NEW i \in I PROVE p[i] = Flat(s, i)
      <4>1. s.length - 1 - i \in Nat /\ s.length - 1 - i < s.length
            /\ s.length - 1 - (s.length - 1 - i) = i
        BY <1>2
      <4> QED BY <3>3, <4>1
    <3> QED BY <3>4
  <2> QED BY <2>1, <2>2
<1> HIDE DEF Iter
<1> QED BY <1>1, <1>5

\* A signal has a position for each of its bits.
LEMMA PlacesAre ==
  ASSUME NEW s
  PROVE  DOMAIN Positions(s) = 0 .. s.length - 1
BY DEF Positions

\* A position is a byte and a bit of it.
LEMMA PlaceIs ==
  ASSUME NEW s, SignalOk(s), NEW i \in 0 .. s.length - 1
  PROVE  /\ Positions(s)[i] = <<Flat(s, i) \div 8, Flat(s, i) % 8>>
         /\ Positions(s)[i][1] \in Nat /\ Positions(s)[i][2] \in 0 .. 7
<1>1. Flat(s, i) \in Nat
  BY FlatIs
<1>2. Positions(s)[i] = <<Flat(s, i) \div 8, Flat(s, i) % 8>>
  BY PositionsAre
<1> QED BY <1>1, <1>2

-----------------------------------------------------------------------------
(* The codec: writing the signals one after another.                       *)

SizeOf(m) == IF m.dlc = 0 THEN 1 ELSE m.dlc
Blank(m) == [b \in 1 .. SizeOf(m) |-> {}]
Put1(m, given, data, s) ==
  IF data.result # "ok" \/ s.name \notin Resolved(m, given) THEN data
  ELSE WriteSignal(s, RawFor(m, s.name, given[s.name]).value, data.value)

BitsOfByte(m) == UNION {{Positions(s)[i][2] : i \in 0 .. s.length - 1} : s \in Range(m.signals)}
Written(m) == [1 .. SizeOf(m) -> SUBSET BitsOfByte(m)]
Outcomes(m) == {Err, Panic} \cup {Done(d) : d \in Written(m)}

\* Writing a signal gives data of the message's length, or an error.
LEMMA WriteGives ==
  ASSUME NEW m, MessageOk(m), NEW s \in Range(m.signals), NEW raw, NEW d \in Written(m)
  PROVE  WriteSignal(s, raw, d) \in Outcomes(m)
<1> DEFINE p == Positions(s)
           In(b) == {i \in DOMAIN p : p[i][1] = b - 1}
           w == [b \in DOMAIN d |->
                   (d[b] \ {p[i][2] : i \in In(b)})
                   \cup {p[i][2] : i \in {j \in In(b) : Bit(raw, j)}}]
<1>1. WriteSignal(s, raw, d) \in {Err, Panic, Done(w)}
  <2> HIDE DEF w
  <2>1. WriteSignal(s, raw, d)
          = IF LastOutside(s, Len(d)) THEN Err
            ELSE IF SomeOutside(s, Len(d)) THEN Panic ELSE Done(w)
    BY DEF WriteSignal, w
  <2> QED BY <2>1
<1>2. w \in Written(m)
  <2> SUFFICES ASSUME NEW b \in 1 .. SizeOf(m)
               PROVE  (d[b] \ {p[i][2] : i \in In(b)})
                        \cup {p[i][2] : i \in {j \in In(b) : Bit(raw, j)}} \in SUBSET BitsOfByte(m)
    BY DEF Written
  <2>1. ASSUME NEW i \in DOMAIN p PROVE p[i][2] \in BitsOfByte(m)
    <3> DEFINE own == {Positions(s)[j][2] : j \in 0 .. s.length - 1}
    <3>1. p[i][2] \in own
      BY PlacesAre
    <3>2. own \in {{Positions(t)[j][2] : j \in 0 .. t.length - 1} : t \in Range(m.signals)}
      OBVIOUS
    <3> HIDE DEF p, own
    <3> QED BY <3>1, <3>2 DEF BitsOfByte
  <2>2. d[b] \in SUBSET BitsOfByte(m)
    BY DEF Written
  <2> HIDE DEF p
  <2> QED BY <2>1, <2>2
<1> HIDE DEF w
<1> QED BY <1>1, <1>2 DEF Outcomes

\* So does writing it only when a value is set.
LEMMA PutGives ==
  ASSUME NEW m, MessageOk(m), NEW given, NEW s \in Range(m.signals), NEW e \in Outcomes(m)
  PROVE  Put1(m, given, e, s) \in Outcomes(m)
<1>1. CASE e.result # "ok" \/ s.name \notin Resolved(m, given)
  BY <1>1 DEF Put1
<1>2. CASE ~(e.result # "ok" \/ s.name \notin Resolved(m, given))
  <2>1. PICK d \in Written(m) : e = Done(d)
    BY <1>2 DEF Outcomes, Err, Panic
  <2>2. e.value = d
    BY <2>1 DEF Done
  <2> QED BY <1>2, <2>2, WriteGives DEF Put1
<1> QED BY <1>1, <1>2

\* What the data is behind each of the signals.
Steps(c, m, given) ==
  /\ c[0] = Done(Blank(m))
  /\ \A k \in 1 .. Len(m.signals) : c[k] = Put1(m, given, c[k - 1], m.signals[k])

\* The encoder writes the signals one behind the other (embrig-dbc's codec.rs, encode_signals).
LEMMA EncodeSteps ==
  ASSUME NEW m, MessageOk(m), NEW given
  PROVE  \E c : Steps(c, m, given) /\ EncodeSignals(m, given) = c[Len(m.signals)]
<1> DEFINE n == Len(m.signals)
           A == Outcomes(m)
           first == Done(Blank(m))
           Iter(h) == [s \in SUBSET (DOMAIN m.signals) |->
                         IF s = {} THEN first
                         ELSE Put1(m, given, h[s \ {Max(s)}], m.signals[Max(s)])]
           f == CHOOSE h : h = Iter(h)
           step == [p \in A \X (1 .. n) |-> Put1(m, given, p[1], m.signals[p[2]])]
<1>1. /\ n \in Nat /\ DOMAIN m.signals = 1 .. n
      /\ \A k \in 1 .. n : m.signals[k] \in Range(m.signals)
  BY SignalsAre
<1>2. EncodeSignals(m, given) = f[DOMAIN m.signals]
  <2> DEFINE zero == [b \in 1 .. (IF m.dlc = 0 THEN 1 ELSE m.dlc) |-> {}]
             Write(data, signal) ==
               IF data.result # "ok" \/ signal.name \notin Resolved(m, given) THEN data
               ELSE WriteSignal(signal, RawFor(m, signal.name, given[signal.name]).value,
                                data.value)
  <2>1. EncodeSignals(m, given) = FoldLeft(Write, first, m.signals)
    BY DEF EncodeSignals, Blank, SizeOf
  <2>2. \A data, signal : Write(data, signal) = Put1(m, given, data, signal)
    BY DEF Put1
  <2> HIDE DEF first, Write
  <2> QED BY <2>1, <2>2, ZenonT(90) DEF FoldLeft, MapThenFoldSet
<1>3. first \in A
  BY DEF Outcomes, Written, Blank
<1>4. step \in [A \X (1 .. n) -> A]
  BY <1>1, PutGives
<1>5. PICK g \in [SUBSET (1 .. n) -> A] : Folds(g, first, step, n)
  <2>1. Foldable(A, first, step, n)
    <3> HIDE DEF n, A, first, step
    <3> QED BY <1>1, <1>3, <1>4, FoldExists
  <2> QED BY <2>1 DEF Foldable
<1>6. g = Iter(g)
  <2>1. ASSUME NEW s \in SUBSET (1 .. n), s # {} PROVE g[s] = Iter(g)[s]
    <3> DEFINE k == Max(s)
    <3>1. k \in s
      BY <1>1, <2>1, MaxIn
    <3>2. g[s] = step[<<g[s \ {k}], k>>]
      BY <1>5, <2>1 DEF Folds
    <3> HIDE DEF k
    <3>3. g[s \ {k}] \in A /\ k \in 1 .. n
      BY <3>1
    <3>4. g[s] = Put1(m, given, g[s \ {k}], m.signals[k])
      BY <3>2, <3>3
    <3> QED BY <1>1, <2>1, <3>1, <3>4 DEF k
  <2>2. g[{}] = first
    BY <1>5 DEF Folds
  <2> HIDE DEF first, A
  <2> QED BY <1>1, <2>1, <2>2
<1>7. f = Iter(f)
  BY <1>6
<1> DEFINE c == [k \in 0 .. n |-> f[1 .. k]]
<1>8. Steps(c, m, given)
  <2>1. c[0] = first
    BY <1>1, <1>7
  <2>2. ASSUME NEW k \in 1 .. n
        PROVE  c[k] = Put1(m, given, c[k - 1], m.signals[k])
    <3>1. /\ 1 .. k \in SUBSET (1 .. n) /\ 1 .. k # {}
          /\ Max(1 .. k) = k /\ (1 .. k) \ {k} = 1 .. k - 1
      BY <1>1, FirstPlaces
    <3>2. f[1 .. k] = Put1(m, given, f[(1 .. k) \ {Max(1 .. k)}], m.signals[Max(1 .. k)])
      BY <1>1, <1>7, <3>1
    <3>3. k - 1 \in 0 .. n /\ k \in 0 .. n
      BY <1>1
    <3> HIDE DEF f
    <3> QED BY <3>1, <3>2, <3>3
  <2> HIDE DEF c
  <2> QED BY <2>1, <2>2 DEF Steps
<1>9. EncodeSignals(m, given) = c[n]
  <2> HIDE DEF f
  <2> QED BY <1>1, <1>2
<1> HIDE DEF c
<1> QED BY <1>8, <1>9

\* A message that is sound in its own bytes is written.
LEMMA SoundWrites ==
  ASSUME NEW m, MessageOk(m), Sound(m), NEW s \in Range(m.signals)
  PROVE  /\ SizeOf(m) \in 1 .. 8
         /\ \A i \in 0 .. s.length - 1 : Positions(s)[i][1] < SizeOf(m)
         /\ ~LastOutside(s, SizeOf(m)) /\ ~SomeOutside(s, SizeOf(m))
<1>1. SizeOf(m) \in 1 .. 8
  BY DEF SizeOf, Sound, MessageOk
<1>2. PICK k \in DOMAIN m.signals : s = m.signals[k]
  BY DEF Range
<1>3. ASSUME NEW i \in 0 .. s.length - 1 PROVE Positions(s)[i][1] < SizeOf(m)
  <2>1. Positions(s)[i] \in Range(Positions(s))
    BY PlacesAre DEF Range
  <2> QED BY <1>2, <2>1 DEF Sound, SizeOf
<1>4. s.length - 1 \in 0 .. s.length - 1
  <2>1. SignalOk(s)
    BY SignalsAre
  <2> QED BY <2>1 DEF SignalOk
<1>5. ~LastOutside(s, SizeOf(m)) /\ ~SomeOutside(s, SizeOf(m))
  <2>1. \A i \in 0 .. s.length - 1 : Positions(s)[i][1] \in Nat
    BY SignalsAre, PlaceIs
  <2> QED BY <1>1, <1>3, <1>4, <2>1 DEF LastOutside, SomeOutside
<1> QED BY <1>1, <1>3, <1>5

\* Behind each signal of a sound message the data is whole.
LEMMA SoundSteps ==
  ASSUME NEW m, MessageOk(m), Sound(m), NEW given, NEW c, Steps(c, m, given),
         NEW k \in 0 .. Len(m.signals)
  PROVE  c[k].result = "ok" /\ c[k] = Done(c[k].value) /\ c[k].value \in Written(m)
<1> DEFINE n == Len(m.signals)
           Whole(e) == e.result = "ok" /\ e = Done(e.value) /\ e.value \in Written(m)
           Upto == {j \in Nat : j <= n => Whole(c[j])}
<1>1. n \in Nat /\ \A j \in 1 .. n : m.signals[j] \in Range(m.signals)
  BY SignalsAre
<1>2. 0 \in Upto
  <2>1. c[0] = Done(Blank(m)) /\ Blank(m) \in Written(m)
    BY DEF Steps, Blank, Written
  <2> QED BY <2>1 DEF Done
<1>3. ASSUME NEW j \in Nat, j \in Upto PROVE j + 1 \in Upto
  <2> SUFFICES ASSUME j + 1 <= n PROVE Whole(c[j + 1])
    OBVIOUS
  <2> DEFINE d == c[j]  e == c[j + 1]  s == m.signals[j + 1]
             raw == RawFor(m, s.name, given[s.name]).value
  <2>1. Whole(d) /\ j + 1 \in 1 .. n
    BY <1>1, <1>3
  <2>2. e = Put1(m, given, d, s)
    <3>1. (j + 1) - 1 = j
      OBVIOUS
    <3> QED BY <2>1, <3>1 DEF Steps
  <2>3. e = d \/ e = WriteSignal(s, raw, d.value)
    BY <2>2 DEF Put1
  <2>4. WriteSignal(s, raw, d.value) \in Outcomes(m)
    <3>1. s \in Range(m.signals) /\ d.value \in Written(m)
      BY <1>1, <2>1
    <3> HIDE DEF raw, s, d
    <3> QED BY <3>1, WriteGives
  <2>5. WriteSignal(s, raw, d.value).result = "ok"
    <3>1. s \in Range(m.signals) /\ d.value \in Written(m)
      BY <1>1, <2>1
    <3> HIDE DEF raw, s, d
    <3>2. Len(d.value) = SizeOf(m) /\ SizeOf(m) \in Nat
      BY <3>1, SoundWrites, LenIs DEF Written
    <3> QED BY <3>1, <3>2, SoundWrites DEF WriteSignal, Done
  <2>6. WriteSignal(s, raw, d.value) # Err /\ WriteSignal(s, raw, d.value) # Panic
    BY <2>5 DEF Err, Panic
  <2> HIDE DEF d, e, s, raw
  <2>7. Whole(e)
    <3>1. CASE e = d
      BY <2>1, <3>1
    <3>2. CASE e = WriteSignal(s, raw, d.value)
      <4>1. PICK q \in Written(m) : e = Done(q)
        BY <2>4, <2>6, <3>2 DEF Outcomes
      <4> QED BY <4>1 DEF Done
    <3> QED BY <2>3, <3>1, <3>2
  <2> QED BY <2>7 DEF e
<1>4. \A j \in Nat : j \in Upto
  <2> HIDE DEF Upto
  <2> QED BY <1>2, <1>3, Induction
<1> QED BY <1>1, <1>4

\* A sound message always encodes, into at most 8 bytes.
LEMMA SoundEncodes ==
  ASSUME NEW m, MessageOk(m), Sound(m), NEW given
  PROVE  LET e == EncodeSignals(m, given)
         IN  /\ e.result = "ok" /\ e = Done(e.value) /\ e.value \in Written(m)
             /\ Len(e.value) <= 8
<1>1. PICK c : Steps(c, m, given) /\ EncodeSignals(m, given) = c[Len(m.signals)]
  BY EncodeSteps
<1>2. Len(m.signals) \in 0 .. Len(m.signals)
  BY SignalsAre
<1> DEFINE e == EncodeSignals(m, given)
<1>3. e.result = "ok" /\ e = Done(e.value) /\ e.value \in Written(m)
  BY <1>1, <1>2, SoundSteps
<1>4. SizeOf(m) \in 1 .. 8
  BY DEF SizeOf, Sound, MessageOk
<1> HIDE DEF e
<1>5. Len(e.value) = SizeOf(m)
  BY <1>3, <1>4, LenIs DEF Written
<1> QED BY <1>3, <1>4, <1>5 DEF e

-----------------------------------------------------------------------------
(* The pace of the CAN nodes.                                              *)

\* The lists of the CAN nodes run side by side.
LEMMA CanListsAre ==
  ASSUME CanState
  PROVE  /\ Len(ecus) \in Nat /\ DOMAIN ecus = 1 .. Len(ecus)
         /\ DOMAIN next = DOMAIN ecus /\ DOMAIN sentAt = DOMAIN ecus /\ DOMAIN values = DOMAIN ecus
         /\ \A i \in DOMAIN ecus : CanNode(i)
BY DEF CanState, CanLists, IsList

\* A node with a sound message transmits just when it is due.
LEMMA DueTransmits ==
  ASSUME CanState, NEW i \in DOMAIN ecus, IsConfig(i), Sound(ecus[i].message)
  PROVE  /\ Due(i) <=> Transmits(i)
         /\ Due(i) <=> (sentAt[i] = -1 \/ time - sentAt[i] >= ecus[i].period)
<1>1. MessageOk(ecus[i].message) /\ CanNode(i)
  BY CanListsAre DEF CanNode
<1>2. Encoded(i).result = "ok" /\ Len(Encoded(i).value) <= 8
  BY <1>1, SoundEncodes DEF Encoded
<1>3. Due(i) <=> Transmits(i)
  BY <1>2 DEF Transmits
<1>4. Due(i) <=> time >= next[i]
  BY DEF Due
<1>5. time \in Nat
  BY DEF CanState
<1>6. CASE sentAt[i] = -1
  <2>1. next[i] = 0
    BY <1>1, <1>6 DEF CanNode
  <2> QED BY <1>3, <1>4, <1>5, <1>6, <2>1
<1>7. CASE sentAt[i] # -1
  <2>1. sentAt[i] \in Nat /\ next[i] = sentAt[i] + ecus[i].period /\ ecus[i].period \in Nat
    BY <1>1, <1>7 DEF CanNode
  <2>2. time >= next[i] <=> time - sentAt[i] >= ecus[i].period
    BY <1>5, <2>1
  <2> QED BY <1>3, <1>4, <1>7, <2>2
<1> QED BY <1>6, <1>7

\* The frames of a tick: one of each node that transmits.
LEMMA FramesAre ==
  ASSUME Tick, NEW i \in DOMAIN ecus
  PROVE  (\E f \in frames' : f.ecu = i) <=> Transmits(i)
<1> DEFINE Frame(j) == [ecu |-> j, data |-> Encoded(j).value]
<1>1. frames' = {Frame(j) : j \in {k \in DOMAIN ecus : Transmits(k)}}
  BY DEF Tick
<1>2. \A j : Frame(j).ecu = j
  OBVIOUS
<1> HIDE DEF Frame
<1> QED BY <1>1, <1>2

\* A tick sends the frame of each node that is due, and no other.
LEMMA TickSendsWhenDue ==
  ASSUME CanState, Tick
  PROVE  \A i \in DOMAIN ecus : IsConfig(i) /\ Sound(ecus[i].message) =>
           ((\E f \in frames' : f.ecu = i)
              <=> (sentAt[i] = -1 \/ time - sentAt[i] >= ecus[i].period))
BY FramesAre, DueTransmits

-----------------------------------------------------------------------------
(* The parser: tables, and messages that change in one place.              *)

\* A set of numbers up to n has a greatest one.
LEMMA GreatestOf ==
  ASSUME NEW n \in Nat, NEW S \in SUBSET (1 .. n), S # {}
  PROVE  \E i \in S : \A j \in S : j <= i
<1>1. \E x \in S : \A y \in S : x >= y
  <2> DEFINE below == {d \in Nat : \E y \in S : d = n - y}
  <2>1. below \in SUBSET Nat /\ below # {}
    <3>1. PICK y \in S : TRUE
      OBVIOUS
    <3>2. n - y \in Nat
      BY <3>1
    <3> QED BY <3>1, <3>2
  <2>2. PICK d \in below : \A e \in below : d <= e
    <3> HIDE DEF below
    <3> QED BY <2>1, LeastOf
  <2>3. PICK x \in S : d = n - x
    BY <2>2
  <2>4. ASSUME NEW y \in S PROVE x >= y
    <3>1. n - y \in below
      OBVIOUS
    <3> QED BY <2>2, <2>3, <3>1
  <2> QED BY <2>4
<1> QED BY <1>1

\* A value table behind each pair of a line.
Insert1(table, pair) == Put(table, pair[1], pair[2])
Inserts(c, table, pairs) ==
  /\ c[0] = table
  /\ \A k \in 1 .. Len(pairs) : c[k] = Insert1(c[k - 1], pairs[k])
Folded(table, pairs) ==
  LET Insert(t, pair) == Put(t, pair[1], pair[2]) IN FoldLeft(Insert, table, pairs)

Raws(table, pairs) == DOMAIN table \cup {pairs[k][1] : k \in 1 .. Len(pairs)}
Tables(table, pairs) ==
  LET V == {table[raw] : raw \in DOMAIN table} \cup {pairs[k][2] : k \in 1 .. Len(pairs)}
  IN  UNION {[D -> V] : D \in SUBSET Raws(table, pairs)}

\* Inserting a pair gives a table over the same raw values and labels.
LEMMA InsertGives ==
  ASSUME NEW table, NEW pairs, NEW t \in Tables(table, pairs), NEW k \in 1 .. Len(pairs)
  PROVE  Insert1(t, pairs[k]) \in Tables(table, pairs)
<1> DEFINE K == Raws(table, pairs)
           V == {table[raw] : raw \in DOMAIN table} \cup {pairs[j][2] : j \in 1 .. Len(pairs)}
           r == pairs[k][1]  v == pairs[k][2]
<1>1. PICK D \in SUBSET K : t \in [D -> V]
  BY DEF Tables
<1>2. r \in K /\ v \in V
  BY DEF Raws
<1> HIDE DEF K, V
<1>3. Insert1(t, pairs[k]) = [x \in D \cup {r} |-> IF x = r THEN v ELSE t[x]]
  BY <1>1 DEF Insert1, Put
<1> HIDE DEF r, v
<1>4. D \cup {r} \in SUBSET K /\ Insert1(t, pairs[k]) \in [D \cup {r} -> V]
  BY <1>1, <1>2, <1>3
<1> QED BY <1>4 DEF Tables, K, V

\* A VAL line inserts its pairs one behind the other (embrig-dbc's parser.rs, parse_val).
LEMMA TableSteps ==
  ASSUME NEW table, table = [raw \in DOMAIN table |-> table[raw]], NEW pairs,
         IsList(pairs, Len(pairs)), Len(pairs) \in Nat
  PROVE  /\ Folded(table, pairs) \in Tables(table, pairs)
         /\ \E c : Inserts(c, table, pairs) /\ Folded(table, pairs) = c[Len(pairs)]
<1> DEFINE n == Len(pairs)
           A == Tables(table, pairs)
           Iter(h) == [s \in SUBSET (DOMAIN pairs) |->
                         IF s = {} THEN table ELSE Insert1(h[s \ {Max(s)}], pairs[Max(s)])]
           f == CHOOSE h : h = Iter(h)
           step == [p \in A \X (1 .. n) |-> Insert1(p[1], pairs[p[2]])]
<1>1. n \in Nat /\ DOMAIN pairs = 1 .. n
  BY DEF IsList
<1>2. Folded(table, pairs) = f[DOMAIN pairs]
  <2> DEFINE Insert(t, pair) == Put(t, pair[1], pair[2])
  <2>1. Folded(table, pairs) = FoldLeft(Insert, table, pairs)
    BY DEF Folded
  <2>2. \A t, pair : Insert(t, pair) = Insert1(t, pair)
    BY DEF Insert1
  <2> HIDE DEF Insert
  <2> QED BY <2>1, <2>2, ZenonT(90) DEF FoldLeft, MapThenFoldSet
<1>3. table \in A
  <2> DEFINE V == {table[raw] : raw \in DOMAIN table} \cup {pairs[k][2] : k \in 1 .. Len(pairs)}
  <2>1. table \in [DOMAIN table -> V] /\ DOMAIN table \in SUBSET Raws(table, pairs)
    BY DEF Raws
  <2> HIDE DEF V
  <2> QED BY <2>1 DEF Tables, V
<1>4. step \in [A \X (1 .. n) -> A]
  BY <1>1, InsertGives
<1>5. PICK g \in [SUBSET (1 .. n) -> A] : Folds(g, table, step, n)
  <2>1. Foldable(A, table, step, n)
    <3> HIDE DEF n, A, step
    <3> QED BY <1>1, <1>3, <1>4, FoldExists
  <2> QED BY <2>1 DEF Foldable
<1>6. g = Iter(g)
  <2>1. ASSUME NEW s \in SUBSET (1 .. n), s # {} PROVE g[s] = Iter(g)[s]
    <3> DEFINE k == Max(s)
    <3>1. k \in s
      BY <1>1, <2>1, MaxIn
    <3>2. g[s] = step[<<g[s \ {k}], k>>]
      BY <1>5, <2>1 DEF Folds
    <3> HIDE DEF k
    <3>3. g[s \ {k}] \in A /\ k \in 1 .. n
      BY <3>1
    <3>4. g[s] = Insert1(g[s \ {k}], pairs[k])
      BY <3>2, <3>3
    <3> QED BY <1>1, <2>1, <3>1, <3>4 DEF k
  <2>2. g[{}] = table
    BY <1>5 DEF Folds
  <2> HIDE DEF A
  <2> QED BY <1>1, <2>1, <2>2
<1>7. f = Iter(f)
  BY <1>6
<1> DEFINE c == [k \in 0 .. n |-> f[1 .. k]]
<1>8. Inserts(c, table, pairs)
  <2>1. c[0] = table
    <3>1. f[{}] = table
      BY <1>1, <1>7
    <3>2. 1 .. 0 = {} /\ 0 \in 0 .. n
      BY <1>1
    <3> HIDE DEF f
    <3> QED BY <3>1, <3>2
  <2>2. ASSUME NEW k \in 1 .. n PROVE c[k] = Insert1(c[k - 1], pairs[k])
    <3>1. /\ 1 .. k \in SUBSET (1 .. n) /\ 1 .. k # {}
          /\ Max(1 .. k) = k /\ (1 .. k) \ {k} = 1 .. k - 1
      BY <1>1, FirstPlaces
    <3>2. f[1 .. k] = Insert1(f[(1 .. k) \ {Max(1 .. k)}], pairs[Max(1 .. k)])
      BY <1>1, <1>7, <3>1
    <3>3. k - 1 \in 0 .. n /\ k \in 0 .. n
      BY <1>1
    <3> HIDE DEF f
    <3> QED BY <3>1, <3>2, <3>3
  <2> HIDE DEF c
  <2> QED BY <2>1, <2>2 DEF Inserts
<1>9. Folded(table, pairs) = c[n]
  <2> HIDE DEF f
  <2> QED BY <1>1, <1>2
<1>10. \A k \in Nat : k <= n => c[k] \in A
  <2> DEFINE Upto == {k \in Nat : k <= n => c[k] \in A}
  <2>1. 0 \in Upto
    BY <1>3, <1>8 DEF Inserts
  <2>2. ASSUME NEW k \in Nat, k \in Upto PROVE k + 1 \in Upto
    <3>1. k + 1 <= n => k + 1 \in 1 .. n /\ (k + 1) - 1 = k
      BY <1>1
    <3> HIDE DEF c
    <3>2. k + 1 <= n => c[k + 1] = Insert1(c[k], pairs[k + 1]) /\ c[k] \in A
      BY <1>1, <1>8, <2>2, <3>1 DEF Inserts
    <3> QED BY <3>1, <3>2, InsertGives
  <2> HIDE DEF Upto
  <2>3. \A k \in Nat : k \in Upto
    BY <2>1, <2>2, Induction
  <2> QED BY <2>3 DEF Upto
<1> HIDE DEF c, A
<1>11. Folded(table, pairs) \in A
  BY <1>1, <1>9, <1>10
<1> QED BY <1>8, <1>9, <1>11 DEF A

-----------------------------------------------------------------------------
(* The parser's steps.                                                     *)

\* The line the parser stands at is one of the file.
LEMMA LineIs ==
  ASSUME CanState, NEW kind, AtLine(kind)
  PROVE  /\ Len(file) \in Nat /\ DOMAIN file = 1 .. Len(file) /\ line \in 1 .. Len(file)
         /\ file[line].kind = kind /\ LineDef(file[line])
<1>1. file \in Seq(Range(file)) /\ \A l \in Range(file) : LineDef(l)
  BY CanAssumption DEF CanState
<1>2. Len(file) \in Nat /\ DOMAIN file = 1 .. Len(file)
  BY <1>1, LenProperties
<1>3. line \in 1 .. Len(file) /\ file[line].kind = kind
  BY <1>2 DEF CanState, AtLine
<1>4. file[line] \in Range(file)
  BY <1>2, <1>3 DEF Range
<1> QED BY <1>1, <1>2, <1>3, <1>4

WithTable(s, t) ==
  [name |-> s.name, start |-> s.start, length |-> s.length, order |-> s.order,
   signed |-> s.signed, factor |-> s.factor, offset |-> s.offset, table |-> t]
WithSignals(m, signals) ==
  [id |-> m.id, name |-> m.name, dlc |-> m.dlc, signals |-> signals]

\* Changing one part of a message or a signal keeps the others.
LEMMA Changed ==
  /\ \A m, signals : MessageOk(m) => [m EXCEPT !.signals = signals] = WithSignals(m, signals)
  /\ \A s, t : SignalOk(s) => [s EXCEPT !.table = t] = WithTable(s, t)
<1>1. ASSUME NEW m, NEW signals, MessageOk(m)
      PROVE  [m EXCEPT !.signals = signals] = WithSignals(m, signals)
  <2> DEFINE a == m.id  b == m.name  c == m.dlc  d == m.signals
  <2>1. m = [id |-> a, name |-> b, dlc |-> c, signals |-> d]
    BY <1>1 DEF MessageOk
  <2> HIDE DEF a, b, c, d
  <2>2. [m EXCEPT !.signals = signals] = [id |-> a, name |-> b, dlc |-> c, signals |-> signals]
    BY <2>1
  <2> QED BY <2>2 DEF WithSignals, a, b, c
<1>2. ASSUME NEW s, NEW t, SignalOk(s)
      PROVE  [s EXCEPT !.table = t] = WithTable(s, t)
  <2> DEFINE a == s.name  b == s.start  c == s.length  d == s.order
             e == s.signed  f == s.factor  g == s.offset  h == s.table
  <2>1. s = [name |-> a, start |-> b, length |-> c, order |-> d,
             signed |-> e, factor |-> f, offset |-> g, table |-> h]
    BY <1>2 DEF SignalOk
  <2> HIDE DEF a, b, c, d, e, f, g, h
  <2>2. [s EXCEPT !.table = t]
          = [name |-> a, start |-> b, length |-> c, order |-> d,
             signed |-> e, factor |-> f, offset |-> g, table |-> t]
    BY <2>1
  <2> QED BY <2>2 DEF WithTable, a, b, c, d, e, f, g
<1> QED BY <1>1, <1>2

\* What each line makes of the network.
LEMMA BoIs ==
  ASSUME CanState, ParseBo, NEW l, l = file[line]
  PROVE  /\ l.id \in Nat /\ l.dlc \in Nat
         /\ network' = [id \in DOMAIN network \cup {l.id} |->
              IF id = l.id
              THEN [id |-> l.id, name |-> l.name, dlc |-> l.dlc, signals |-> <<>>]
              ELSE network[id]]
         /\ current' = l.id
         /\ line' = line + 1 /\ UNCHANGED <<pc, file>>
<1>1. l.id \in Nat /\ l.dlc \in Nat
  BY LineIs DEF ParseBo, LineDef
<1> QED BY <1>1 DEF ParseBo, Put, NextLine

\* What an SG line changes: the current message gets the signal, last.
LEMMA SgIs ==
  ASSUME CanState, ParseSg, NEW l, l = file[line], NEW m, m = network[current]
  PROVE  /\ SignalOk(l.signal) /\ current \in DOMAIN network /\ MessageOk(m)
         /\ network' = [id \in DOMAIN network |->
              IF id = current THEN WithSignals(m, Longer(m.signals, l.signal, Len(m.signals)))
              ELSE network[id]]
         /\ line' = line + 1 /\ UNCHANGED <<pc, file, current>>
<1>1. current \in DOMAIN network /\ MessageOk(m) /\ current # -1
  BY DEF ParseSg, CanState, NetworkOk
<1>2. SignalOk(l.signal)
  <2>1. l.signal \in [name : {l.signal.name}, start : Nat, length : 1 .. 63,
                      order : {"intel", "motorola"}, signed : BOOLEAN,
                      factor : Int, offset : Int, table : {<<>>}]
    BY LineIs DEF ParseSg, LineDef
  <2> DEFINE s == l.signal
  <2> HIDE DEF s
  <2>2. s \in [name : {s.name}, start : Nat, length : 1 .. 63,
               order : {"intel", "motorola"}, signed : BOOLEAN,
               factor : Int, offset : Int, table : {<<>>}]
    BY <2>1 DEF s
  <2>3. s = [name |-> s.name, start |-> s.start, length |-> s.length, order |-> s.order,
             signed |-> s.signed, factor |-> s.factor, offset |-> s.offset, table |-> s.table]
    BY <2>2
  <2>4. s.table = <<>> /\ DOMAIN s.table = {} /\ IsFiniteSet({})
    BY <2>2, FS_EmptySet
  <2>5. s.table = [raw \in DOMAIN s.table |-> s.table[raw]]
    BY <2>4
  <2>6. SignalOk(s)
    BY <2>2, <2>3, <2>4, <2>5 DEF SignalOk
  <2> QED BY <2>6 DEF s
<1>3. network' = [network EXCEPT ![current] = [m EXCEPT !.signals = Append(m.signals, l.signal)]]
  BY DEF ParseSg
<1>4. Append(m.signals, l.signal) = Longer(m.signals, l.signal, Len(m.signals))
  BY <1>1, AppendIs DEF MessageOk
<1>5. network' = [network EXCEPT ![current] = WithSignals(m, Longer(m.signals, l.signal, Len(m.signals)))]
  <2> DEFINE t == Longer(m.signals, l.signal, Len(m.signals))
  <2>1. network' = [network EXCEPT ![current] = [m EXCEPT !.signals = t]]
    BY <1>3, <1>4
  <2> HIDE DEF t
  <2>2. [m EXCEPT !.signals = t] = WithSignals(m, t)
    BY <1>1, Changed
  <2> QED BY <2>1, <2>2 DEF t
<1>6. network = [id \in DOMAIN network |-> network[id]]
  BY DEF CanState, NetworkOk
<1>7. line' = line + 1 /\ UNCHANGED <<pc, file, current>>
  BY DEF ParseSg, NextLine
<1> DEFINE new == WithSignals(m, Longer(m.signals, l.signal, Len(m.signals)))
<1> HIDE DEF new
<1>8. network' = [id \in DOMAIN network |-> IF id = current THEN new ELSE network[id]]
  BY <1>5, <1>6 DEF new
<1> QED BY <1>1, <1>2, <1>7, <1>8 DEF new

\* The index of a name is the first signal that has it, or 0.
LEMMA IndexIs ==
  ASSUME NEW m, MessageOk(m), NEW name, NEW i, i = SignalIndex(m, name)
  PROVE  /\ i \in 0 .. Len(m.signals)
         /\ i # 0 => m.signals[i].name = name
         /\ \A j \in 1 .. Len(m.signals) : m.signals[j].name = name => i # 0 /\ i <= j
<1> DEFINE found == {k \in DOMAIN m.signals : m.signals[k].name = name}
<1>1. DOMAIN m.signals = 1 .. Len(m.signals) /\ Len(m.signals) \in Nat
  BY SignalsAre
<1>2. i = IF found = {} THEN 0 ELSE CHOOSE k \in found : \A j \in found : k <= j
  BY DEF SignalIndex
<1>3. CASE found = {}
  BY <1>1, <1>2, <1>3
<1>4. CASE found # {}
  <2>1. PICK k \in found : \A j \in found : k <= j
    <3>1. found \in SUBSET Nat
      BY <1>1
    <3> HIDE DEF found
    <3> QED BY <1>4, <3>1, LeastOf
  <2>2. i \in found /\ \A j \in found : i <= j
    <3> HIDE DEF found
    <3> QED BY <1>2, <1>4, <2>1
  <2> QED BY <1>1, <2>2
<1> QED BY <1>3, <1>4

\* One signal of a message with another table.
Tabled(m, i, t) ==
  WithSignals(m, [j \in 1 .. Len(m.signals) |->
                    IF j = i THEN WithTable(m.signals[i], t) ELSE m.signals[j]])

\* What a VAL line changes: the table of the signal it names.
LEMMA ValIs ==
  ASSUME CanState, ParseVal, NEW l, l = file[line],
         NEW m, m = network[l.id], NEW i, i = SignalIndex(m, l.signal)
  PROVE  /\ IsList(l.pairs, Len(l.pairs)) /\ Len(l.pairs) \in Nat
         /\ \A k \in 1 .. Len(l.pairs) : l.pairs[k][1] \in Int
         /\ l.id \notin DOMAIN network => UNCHANGED network
         /\ l.id \in DOMAIN network /\ i = 0 => UNCHANGED network
         /\ l.id \in DOMAIN network /\ i # 0 =>
              network' = [id \in DOMAIN network |->
                IF id = l.id THEN Tabled(m, i, Folded(m.signals[i].table, l.pairs))
                ELSE network[id]]
         /\ line' = line + 1 /\ UNCHANGED <<pc, file, current>>
<1>1. l.pairs \in Seq(Range(l.pairs)) /\ \A pair \in Range(l.pairs) : pair[1] \in Int
  BY LineIs DEF ParseVal, LineDef
<1>2. /\ IsList(l.pairs, Len(l.pairs)) /\ Len(l.pairs) \in Nat
      /\ \A k \in 1 .. Len(l.pairs) : l.pairs[k][1] \in Int
  <2>1. Len(l.pairs) \in Nat /\ l.pairs \in [1 .. Len(l.pairs) -> Range(l.pairs)]
    BY <1>1, LenProperties
  <2> QED BY <1>1, <2>1 DEF IsList, Range
<1>3. line' = line + 1 /\ UNCHANGED <<pc, file, current>>
  BY DEF ParseVal, NextLine
<1> DEFINE Insert(t, pair) == Put(t, pair[1], pair[2])
           at == IF l.id \in DOMAIN network THEN i ELSE 0
<1>4. network' = IF at = 0 THEN network
                 ELSE [network EXCEPT ![l.id].signals[at].table =
                         FoldLeft(Insert, network[l.id].signals[at].table, l.pairs)]
  BY DEF ParseVal
<1>5. CASE at = 0
  BY <1>2, <1>3, <1>4, <1>5
<1>6. CASE at # 0
  <2> DEFINE t == Folded(m.signals[i].table, l.pairs)
  <2>1. at = i /\ i # 0 /\ l.id \in DOMAIN network
    BY <1>6
  <2>2. FoldLeft(Insert, network[l.id].signals[at].table, l.pairs) = t
    BY <2>1 DEF Folded
  <2>3. network' = [network EXCEPT ![l.id].signals[i].table = t]
    <3> HIDE DEF Insert, t
    <3> QED BY <1>4, <1>6, <2>1, <2>2
  <2> DEFINE a == [m.signals[i] EXCEPT !.table = t]
             b == [m.signals EXCEPT ![i] = a]
             c == [m EXCEPT !.signals = b]
  <2>4. network' = [network EXCEPT ![l.id] = c]
    <3> HIDE DEF t
    <3> QED BY <2>3
  <2>5. MessageOk(m) /\ network = [id \in DOMAIN network |-> network[id]]
    BY <2>1 DEF CanState, NetworkOk
  <2>6. i \in 1 .. Len(m.signals) /\ SignalOk(m.signals[i])
    <3>1. i \in 1 .. Len(m.signals)
      BY <2>1, <2>5, IndexIs, SignalsAre
    <3> QED BY <2>5, <3>1 DEF MessageOk
  <2> HIDE DEF t
  <2>7. a = WithTable(m.signals[i], t)
    BY <2>6, Changed
  <2> HIDE DEF a
  <2> DEFINE u == WithTable(m.signals[i], t)
             signals == [j \in 1 .. Len(m.signals) |-> IF j = i THEN u ELSE m.signals[j]]
  <2>8. b = signals
    <3>1. m.signals = [j \in 1 .. Len(m.signals) |-> m.signals[j]]
      BY <2>5 DEF MessageOk, IsList
    <3>2. a = u
      BY <2>7
    <3> HIDE DEF u
    <3> QED BY <3>1, <3>2
  <2> HIDE DEF b, signals
  <2>9. c = WithSignals(m, signals)
    BY <2>5, <2>8, Changed
  <2> HIDE DEF c
  <2>10. network' = [network EXCEPT ![l.id] = WithSignals(m, signals)]
    BY <2>4, <2>9
  <2>11. WithSignals(m, signals) = Tabled(m, i, t)
    BY DEF Tabled, signals
  <2>12. network' = [id \in DOMAIN network |->
                       IF id = l.id THEN Tabled(m, i, t) ELSE network[id]]
    BY <2>5, <2>10, <2>11
  <2> QED BY <1>2, <1>3, <2>1, <2>12 DEF t
<1> QED BY <1>5, <1>6

-----------------------------------------------------------------------------
(* The parser keeps the state well-formed.                                 *)

\* Tables stay functions of finitely many numbers.
LEMMA TableStays ==
  ASSUME NEW s, SignalOk(s), NEW pairs, IsList(pairs, Len(pairs)), Len(pairs) \in Nat,
         \A k \in 1 .. Len(pairs) : pairs[k][1] \in Int
  PROVE  SignalOk(WithTable(s, Folded(s.table, pairs)))
<1> DEFINE t == Folded(s.table, pairs)  K == Raws(s.table, pairs)
<1>1. t \in Tables(s.table, pairs)
  BY TableSteps DEF SignalOk
<1>2. PICK D \in SUBSET K : t = [raw \in D |-> t[raw]]
  <2> HIDE DEF t, K
  <2> QED BY <1>1 DEF Tables, K
<1>3. K \subseteq Int /\ IsFiniteSet(K)
  <2> DEFINE more == {pairs[k][1] : k \in 1 .. Len(pairs)}
             n == Len(pairs)
  <2>1. IsFiniteSet(1 .. n)
    BY FS_Interval
  <2>2. IsFiniteSet(more)
    <3> DEFINE f == [k \in 1 .. n |-> pairs[k][1]]
    <3>1. f \in [1 .. n -> more] /\ \A x \in more : \E k \in 1 .. n : f[k] = x
      OBVIOUS
    <3> HIDE DEF f, more
    <3>2. f \in Surjection(1 .. n, more)
      BY <3>1 DEF Surjection
    <3> QED BY <2>1, <3>2, FS_Surjection
  <2>3. IsFiniteSet(DOMAIN s.table) /\ DOMAIN s.table \subseteq Int /\ more \subseteq Int
    BY DEF SignalOk
  <2> HIDE DEF more
  <2>4. IsFiniteSet(DOMAIN s.table \cup more)
    BY <2>2, <2>3, FS_Union
  <2> QED BY <2>3, <2>4 DEF Raws, more
<1> HIDE DEF t, K
<1>4. DOMAIN t \subseteq Int /\ IsFiniteSet(DOMAIN t) /\ t = [raw \in DOMAIN t |-> t[raw]]
  BY <1>2, <1>3, FS_Subset
<1> QED BY <1>4 DEF SignalOk, WithTable, t

\* A line of the file keeps the state of the CAN vehicle well formed.
LEMMA ParserKeeps ==
  ASSUME CanState, ParseLine, UNCHANGED nodeVars
  PROVE  CanState'
<1>1. /\ CanLists' /\ config' \in Vehicles /\ time' \in Nat
  BY DEF nodeVars, CanState, CanLists, CanNode, IsConfig, IsList
<1>2. line \in Nat \ {0} /\ file \in Files
  BY DEF CanState
<1>3. CASE ParseBo
  <2> DEFINE l == file[line]
             new == [id |-> l.id, name |-> l.name, dlc |-> l.dlc, signals |-> <<>>]
  <2>1. /\ l.id \in Nat /\ l.dlc \in Nat
        /\ network' = [id \in DOMAIN network \cup {l.id} |->
                         IF id = l.id THEN new ELSE network[id]]
        /\ current' = l.id /\ line' = line + 1 /\ file' = file
    BY <1>3, BoIs
  <2>2. MessageOk(new)
    BY <2>1 DEF MessageOk, IsList
  <2> HIDE DEF new, l
  <2>3. NetworkOk'
    BY <2>1, <2>2 DEF CanState, NetworkOk
  <2> QED BY <1>1, <1>2, <2>1, <2>3 DEF CanState
<1>4. CASE ParseSg
  <2> DEFINE l == file[line]  m == network[current]
             new == WithSignals(m, Longer(m.signals, l.signal, Len(m.signals)))
  <2>1. /\ SignalOk(l.signal) /\ current \in DOMAIN network /\ MessageOk(m)
        /\ network' = [id \in DOMAIN network |-> IF id = current THEN new ELSE network[id]]
        /\ current' = current /\ line' = line + 1 /\ file' = file
    BY <1>4, SgIs
  <2>2. MessageOk(new)
    <3> DEFINE n == Len(m.signals)
    <3>1. /\ n \in Nat /\ IsList(m.signals, n)
          /\ \A i \in 1 .. n : SignalOk(m.signals[i])
      BY <2>1 DEF MessageOk
    <3>2. Len(Longer(m.signals, l.signal, n)) = n + 1 /\ IsList(Longer(m.signals, l.signal, n), n + 1)
      <4> DEFINE e == l.signal  old == m.signals
      <4>1. n \in Nat /\ IsList(old, n)
        BY <3>1
      <4> HIDE DEF n, e, old
      <4>2. Append(old, e) = Longer(old, e, n) /\ IsList(Append(old, e), n + 1) /\ Len(Append(old, e)) = n + 1
        BY <4>1, AppendIs
      <4> QED BY <4>2 DEF e, old
    <3> HIDE DEF n
    <3>3. \A i \in 1 .. n + 1 : SignalOk(Longer(m.signals, l.signal, n)[i])
      BY <2>1, <3>1 DEF Longer
    <3> QED BY <2>1, <3>1, <3>2, <3>3 DEF MessageOk, WithSignals, n
  <2> HIDE DEF new, l, m
  <2>3. NetworkOk' /\ DOMAIN network' = DOMAIN network
    BY <2>1, <2>2 DEF CanState, NetworkOk
  <2> QED BY <1>1, <1>2, <2>1, <2>3 DEF CanState
<1>5. CASE ParseVal
  <2> DEFINE l == file[line]  m == network[l.id]  i == SignalIndex(m, l.signal)
             new == Tabled(m, i, Folded(m.signals[i].table, l.pairs))
  <2>1. /\ IsList(l.pairs, Len(l.pairs)) /\ Len(l.pairs) \in Nat
        /\ \A k \in 1 .. Len(l.pairs) : l.pairs[k][1] \in Int
        /\ ~UNCHANGED network =>
             /\ l.id \in DOMAIN network /\ i # 0
             /\ network' = [id \in DOMAIN network |-> IF id = l.id THEN new ELSE network[id]]
        /\ current' = current /\ line' = line + 1 /\ file' = file
    BY <1>5, ValIs
  <2>2. ASSUME ~UNCHANGED network PROVE MessageOk(new)
    <3> DEFINE n == Len(m.signals)
    <3>1. MessageOk(m)
      BY <2>1, <2>2 DEF CanState, NetworkOk
    <3>2. /\ n \in Nat /\ IsList(m.signals, n)
          /\ \A j \in 1 .. n : SignalOk(m.signals[j])
      BY <3>1 DEF MessageOk
    <3>3. i \in 1 .. n
      BY <2>1, <2>2, <3>1, <3>2, IndexIs
    <3> DEFINE signals == [j \in 1 .. n |-> IF j = i THEN WithTable(m.signals[i], Folded(m.signals[i].table, l.pairs))
                                            ELSE m.signals[j]]
    <3>4. SignalOk(WithTable(m.signals[i], Folded(m.signals[i].table, l.pairs)))
      BY <2>1, <3>2, <3>3, TableStays
    <3>5. \A j \in 1 .. n : SignalOk(signals[j])
      BY <3>2, <3>4
    <3>6. IsList(signals, n)
      BY DEF IsList
    <3>7. Len(signals) = n
      <4> HIDE DEF signals
      <4> QED BY <3>2, <3>6, AppendIs
    <3>8. new = WithSignals(m, signals)
      BY DEF Tabled
    <3> HIDE DEF signals, n, new
    <3> QED BY <3>1, <3>2, <3>5, <3>6, <3>7, <3>8 DEF MessageOk, WithSignals
  <2> HIDE DEF new, l, m, i
  <2>3. NetworkOk' /\ DOMAIN network' = DOMAIN network
    BY <2>1, <2>2 DEF CanState, NetworkOk
  <2> QED BY <1>1, <1>2, <2>1, <2>3 DEF CanState
<1>6. CASE SkipLine
  <2>1. line' = line + 1 /\ UNCHANGED <<file, current, network>>
    BY <1>6 DEF SkipLine, NextLine
  <2> QED BY <1>1, <1>2, <2>1 DEF CanState, NetworkOk
<1>7. CASE ParseError
  <2>1. UNCHANGED <<file, line, current, network>>
    BY <1>7 DEF ParseError
  <2> QED BY <1>1, <1>2, <2>1 DEF CanState, NetworkOk
<1> QED BY <1>3, <1>4, <1>5, <1>6, <1>7 DEF ParseLine

-----------------------------------------------------------------------------
(* Building and running keep the state well-formed.                        *)

\* A message found by name is one of the network's.
LEMMA NamedIs ==
  ASSUME NetworkOk, NEW name, MessageByName(name) # NoMessage
  PROVE  MessageOk(MessageByName(name))
<1> DEFINE ids == {id \in DOMAIN network : network[id].name = name}
<1>1. ids # {} /\ MessageByName(name) = network[CHOOSE id \in ids : \A j \in ids : id <= j]
  BY DEF MessageByName
<1>2. PICK k \in ids : \A j \in ids : k <= j
  <2>1. ids \in SUBSET Nat
    BY DEF NetworkOk
  <2> HIDE DEF ids
  <2> QED BY <1>1, <2>1, LeastOf
<1> DEFINE c == CHOOSE id \in ids : \A j \in ids : id <= j
<1>3. c \in ids
  <2> HIDE DEF ids
  <2> QED BY <1>2
<1> HIDE DEF c
<1> QED BY <1>1, <1>3 DEF NetworkOk, c

\* A further node leaves the ones before it.
LEMMA OldNodes ==
  ASSUME CanState, NEW n, n = Len(ecus), NEW e, NEW v,
         ecus' = Longer(ecus, e, n), values' = Longer(values, v, n),
         next' = Longer(next, 0, n), sentAt' = Longer(sentAt, -1, n)
  PROVE  /\ \A i \in 1 .. n : CanNode(i)'
         /\ /\ ecus'[n + 1] = e /\ values'[n + 1] = v /\ next'[n + 1] = 0 /\ sentAt'[n + 1] = -1
<1>1. n \in Nat
  BY DEF CanState, CanLists
<1>2. /\ ecus'[n + 1] = e /\ values'[n + 1] = v /\ next'[n + 1] = 0 /\ sentAt'[n + 1] = -1
  BY <1>1 DEF Longer
<1>3. ASSUME NEW i \in 1 .. n PROVE CanNode(i)'
  <2>1. /\ ecus'[i] = ecus[i] /\ values'[i] = values[i] /\ next'[i] = next[i]
        /\ sentAt'[i] = sentAt[i]
    BY <1>1 DEF Longer
  <2>2. CanNode(i)
    BY DEF CanState, CanLists
  <2> QED BY <2>1, <2>2 DEF CanNode, IsConfig
<1> QED BY <1>2, <1>3

\* A new node is well formed.
LEMMA NewNode ==
  ASSUME NEW i, NEW m, NEW v, ecus'[i].message = m, ecus'[i].period \in Nat,
         values'[i] = v, next'[i] = 0, sentAt'[i] = -1,
         m # NoMessage => MessageOk(m) /\ \A s \in DOMAIN v : Holds(m, s, v[s])
  PROVE  CanNode(i)'
BY DEF CanNode, IsConfig

\* Building an ECU keeps the state of the CAN vehicle well formed.
LEMMA BuildKeeps ==
  ASSUME CanState, BuildEcu
  PROVE  CanState'
<1> DEFINE n == Len(ecus)
           ecu == config[n + 1]
           m == IF ecu.kind = "config" THEN MessageByName(ecu.message) ELSE NoMessage
           e == [name |-> ecu.name, hears |-> Hears(ecu), message |-> m, period |-> ecu.period]
           v == [s \in DOMAIN ecu.signals |-> Physical(m, s, ecu.signals[s]).value]
<1>1. /\ n < Len(config) /\ Buildable(ecu)
      /\ ecus' = Append(ecus, e) /\ values' = Append(values, v)
      /\ next' = Append(next, 0) /\ sentAt' = Append(sentAt, -1)
      /\ UNCHANGED <<file, line, current, network, config, time>>
  BY DEF BuildEcu, parserVars
<1>2. /\ n \in Nat /\ IsList(ecus, n) /\ IsList(values, n) /\ IsList(next, n) /\ IsList(sentAt, n)
  BY DEF CanState, CanLists
<1>3. ecu.period \in Nat /\ \A s \in DOMAIN ecu.signals : Numeric(ecu.signals[s])
  <2>1. config \in Seq(Range(config)) /\ \A x \in Range(config) :
          x.period \in Nat /\ \A s \in DOMAIN x.signals : Numeric(x.signals[s])
    BY CanAssumption DEF CanState
  <2>2. n + 1 \in 1 .. Len(config) /\ DOMAIN config = 1 .. Len(config)
    BY <1>1, <1>2, <2>1, LenProperties
  <2>3. ecu \in Range(config)
    BY <2>2 DEF Range
  <2> QED BY <2>1, <2>3
<1>4. m # NoMessage => MessageOk(m) /\ \A s \in DOMAIN v : Holds(m, s, v[s])
  <2> SUFFICES ASSUME m # NoMessage PROVE MessageOk(m) /\ \A s \in DOMAIN v : Holds(m, s, v[s])
    OBVIOUS
  <2>1. ecu.kind = "config" /\ m = MessageByName(ecu.message)
    OBVIOUS
  <2>2. MessageOk(m)
    BY <2>1, NamedIs DEF CanState
  <2>3. \A s \in DOMAIN ecu.signals : Encodable(m, s, ecu.signals[s])
    BY <1>1, <2>1 DEF Buildable
  <2> HIDE DEF m
  <2>4. ASSUME NEW s \in DOMAIN v PROVE Holds(m, s, v[s])
    <3>1. s \in DOMAIN ecu.signals /\ v[s] = Physical(m, s, ecu.signals[s]).value
      OBVIOUS
    <3> QED BY <1>3, <2>2, <2>3, <3>1, PhysicalIs
  <2> QED BY <2>2, <2>4
<1> HIDE DEF v, m, n
<1>5. e.message = m /\ e.period = ecu.period
  OBVIOUS
<1> HIDE DEF e, ecu
<1>6. /\ ecus' = Longer(ecus, e, n) /\ IsList(ecus', n + 1) /\ Len(ecus') = n + 1
      /\ values' = Longer(values, v, n) /\ IsList(values', n + 1)
      /\ next' = Longer(next, 0, n) /\ IsList(next', n + 1)
      /\ sentAt' = Longer(sentAt, -1, n) /\ IsList(sentAt', n + 1)
  BY <1>1, <1>2, AppendIs
<1>7. /\ \A i \in 1 .. n : CanNode(i)'
      /\ ecus'[n + 1] = e /\ values'[n + 1] = v /\ next'[n + 1] = 0 /\ sentAt'[n + 1] = -1
  BY <1>6, OldNodes DEF n
<1>8. ASSUME NEW i \in 1 .. n + 1 PROVE CanNode(i)'
  <2>1. CASE i = n + 1
    <3>1. /\ ecus'[i].message = m /\ ecus'[i].period \in Nat
          /\ values'[i] = v /\ next'[i] = 0 /\ sentAt'[i] = -1
      BY <1>3, <1>5, <1>7, <2>1
    <3> QED BY <1>4, <3>1, NewNode
  <2>2. CASE i # n + 1
    <3>1. i \in 1 .. n
      BY <1>2, <2>2
    <3> QED BY <1>7, <3>1
  <2> QED BY <2>1, <2>2
<1>9. CanLists'
  BY <1>2, <1>6, <1>8 DEF CanLists
<1> QED BY <1>1, <1>9 DEF CanState, NetworkOk

\* So does a tick of the clock.
LEMMA TickKeeps ==
  ASSUME CanState, Tick
  PROVE  CanState'
<1>1. /\ time' = time + StepUs
      /\ next' = [i \in DOMAIN ecus |-> IF Due(i) THEN time + ecus[i].period ELSE next[i]]
      /\ sentAt' = [i \in DOMAIN ecus |-> IF Transmits(i) THEN time ELSE sentAt[i]]
      /\ UNCHANGED <<file, line, current, network, config, ecus, values>>
  BY DEF Tick, parserVars
<1>2. time \in Nat /\ time + StepUs \in Nat
  BY ConfigVehicleAssumption DEF CanState
<1>3. /\ Len(ecus) \in Nat /\ DOMAIN ecus = 1 .. Len(ecus)
      /\ \A i \in DOMAIN ecus : CanNode(i)
  BY CanListsAre
<1>4. ASSUME NEW i \in DOMAIN ecus PROVE CanNode(i)'
  <2>1. /\ next'[i] = IF Due(i) THEN time + ecus[i].period ELSE next[i]
        /\ sentAt'[i] = IF Transmits(i) THEN time ELSE sentAt[i]
        /\ ecus'[i] = ecus[i] /\ values'[i] = values[i]
    BY <1>1
  <2>2. CanNode(i)
    BY <1>3
  <2>3. ecus'[i].period \in Nat /\ next'[i] \in Nat
    BY <1>2, <2>1, <2>2 DEF CanNode
  <2>4. CASE ~IsConfig(i)
    BY <2>1, <2>3, <2>4 DEF CanNode, IsConfig
  <2>5. CASE IsConfig(i)
    <3>1. ASSUME Sound(ecus[i].message)
          PROVE  IF sentAt'[i] = -1 THEN next'[i] = 0
                 ELSE sentAt'[i] \in Nat /\ next'[i] = sentAt'[i] + ecus[i].period
      <4>1. Due(i) <=> Transmits(i)
        BY <2>5, <3>1, DueTransmits
      <4>2. CASE Due(i)
        <5>1. sentAt'[i] = time /\ next'[i] = time + ecus[i].period
          BY <2>1, <4>1, <4>2
        <5> QED BY <1>2, <5>1
      <4>3. CASE ~Due(i)
        <5>1. sentAt'[i] = sentAt[i] /\ next'[i] = next[i]
          BY <2>1, <4>1, <4>3
        <5> QED BY <2>2, <2>5, <3>1, <5>1 DEF CanNode
      <4> QED BY <4>2, <4>3
    <3>2. /\ MessageOk(ecus[i].message)
          /\ \A name \in DOMAIN values[i] : Holds(ecus[i].message, name, values[i][name])
      BY <2>2, <2>5 DEF CanNode
    <3> QED BY <2>1, <2>3, <3>1, <3>2 DEF CanNode
  <2> QED BY <2>4, <2>5
<1>5. CanLists'
  <2>1. IsList(next', Len(ecus)) /\ IsList(sentAt', Len(ecus))
    BY <1>1, <1>3 DEF IsList
  <2>2. IsList(ecus', Len(ecus)) /\ IsList(values', Len(ecus)) /\ ecus' = ecus
    BY <1>1 DEF CanState, CanLists
  <2> QED BY <1>3, <1>4, <2>1, <2>2 DEF CanLists
<1> QED BY <1>1, <1>2, <1>5 DEF CanState, NetworkOk

\* So does setting a signal.
LEMMA SetKeeps ==
  ASSUME CanState, NEW r \in Requests, SetSignal(r)
  PROVE  CanState'
<1> DEFINE i == IndexOf(r.ecu)
           m == ecus[i].message
           v == Physical(m, r.signal, r.value).value
<1>1. /\ Accepted(r) /\ values' = [values EXCEPT ![i] = Put(@, r.signal, v)]
      /\ UNCHANGED <<file, line, current, network, config, ecus, next, time, sentAt>>
  BY DEF SetSignal, parserVars
<1>2. i # 0 /\ IsConfig(i) /\ Encodable(m, r.signal, r.value)
  BY <1>1 DEF Accepted
<1>3. /\ Len(ecus) \in Nat /\ DOMAIN ecus = 1 .. Len(ecus) /\ DOMAIN values = DOMAIN ecus
      /\ \A j \in DOMAIN ecus : CanNode(j)
  BY CanListsAre
<1>4. i \in DOMAIN ecus
  <2> DEFINE found == {j \in DOMAIN ecus : ecus[j].name = r.ecu}
  <2>1. found # {} /\ i = CHOOSE k \in found : \A j \in found : j <= k
    BY <1>2 DEF IndexOf
  <2>2. \E k \in found : \A j \in found : j <= k
    <3>1. found \in SUBSET (1 .. Len(ecus))
      BY <1>3
    <3> HIDE DEF found
    <3> QED BY <1>3, <2>1, <3>1, GreatestOf
  <2>3. i \in found
    <3> HIDE DEF found
    <3> QED BY <2>1, <2>2
  <2> QED BY <2>3
<1>5. Holds(m, r.signal, v)
  <2>1. MessageOk(m) /\ Numeric(r.value)
    BY <1>2, <1>3, <1>4, CanAssumption DEF CanNode
  <2> QED BY <1>2, <2>1, PhysicalIs
<1> HIDE DEF i, v
<1>6. ASSUME NEW j \in DOMAIN ecus PROVE CanNode(j)'
  <2>1. CanNode(j)
    BY <1>3
  <2>2. CASE j # i
    <3>1. values'[j] = values[j]
      BY <1>1, <1>3, <2>2
    <3> QED BY <1>1, <2>1, <3>1 DEF CanNode, IsConfig
  <2>3. CASE j = i
    <3>1. values'[j] = Put(values[j], r.signal, v)
      BY <1>1, <1>3, <2>3
    <3>2. ASSUME NEW name \in DOMAIN values'[j]
          PROVE  Holds(ecus[j].message, name, values'[j][name])
      <4>1. name \in DOMAIN values[j] \cup {r.signal}
            /\ values'[j][name] = IF name = r.signal THEN v ELSE values[j][name]
        BY <3>1, <3>2 DEF Put
      <4>2. CASE name = r.signal
        BY <1>5, <2>3, <4>1, <4>2
      <4>3. CASE name # r.signal
        BY <1>2, <2>1, <2>3, <4>1, <4>3 DEF CanNode
      <4> QED BY <4>2, <4>3
    <3> QED BY <1>1, <2>1, <3>2 DEF CanNode, IsConfig
  <2> QED BY <2>2, <2>3
<1>7. CanLists'
  <2>1. IsList(values', Len(ecus))
    BY <1>1, <1>3 DEF IsList
  <2>2. /\ IsList(ecus', Len(ecus)) /\ IsList(next', Len(ecus)) /\ IsList(sentAt', Len(ecus))
        /\ ecus' = ecus
    BY <1>1 DEF CanState, CanLists
  <2> QED BY <1>3, <1>6, <2>1, <2>2 DEF CanLists
<1> QED BY <1>1, <1>7 DEF CanState, NetworkOk

\* So does a step that changes none of it.
LEMMA CanIdle ==
  ASSUME CanState, UNCHANGED <<file, line, current, network, nodeVars>>
  PROVE  CanState'
<1>1. UNCHANGED <<file, line, current, network, config, ecus, values, next, time, sentAt>>
  BY DEF nodeVars
<1>2. CanLists'
  BY <1>1 DEF CanState, CanLists, CanNode, IsConfig, IsList
<1> QED BY <1>1, <1>2 DEF CanState, NetworkOk

\* The CAN vehicle starts well formed.
LEMMA CanInitially ==
  ASSUME Init
  PROVE  CanState
<1>1. /\ file \in Files /\ line = 1 /\ current = -1 /\ network = <<>> /\ config \in Vehicles
      /\ ecus = <<>> /\ values = <<>> /\ next = <<>> /\ sentAt = <<>> /\ time = 0
  BY DEF Init, InitParser, InitNodes
<1>2. IsList(<<>>, 0) /\ Len(<<>>) = 0
  BY DEF IsList
<1>3. CanLists
  BY <1>1, <1>2 DEF CanLists
<1>4. NetworkOk
  <2>1. DOMAIN network = {} /\ network = [id \in {} |-> network[id]]
    BY <1>1
  <2> QED BY <2>1 DEF NetworkOk
<1> QED BY <1>1, <1>3, <1>4 DEF CanState

\* Every step of the CAN vehicle keeps its state well formed.
LEMMA CanStateStep ==
  ASSUME CanState, Next
  PROVE  CanState'
<1>1. CASE Parse
  BY <1>1, ParserKeeps DEF Parse
<1>2. CASE Build
  BY <1>2, BuildKeeps, CanIdle DEF Build, StartBuild, BuildFails, Built
<1>3. CASE Tick
  BY <1>3, TickKeeps
<1>4. CASE TickPanics
  BY <1>4, CanIdle DEF TickPanics
<1>5. CASE \E r \in Requests : SetSignal(r)
  BY <1>5, SetKeeps
<1> QED BY <1>1, <1>2, <1>3, <1>4, <1>5 DEF Next

CanInv == bus = "can" => CanState

\* The CAN vehicle's state is well formed for ever.
LEMMA CanInvariant == VehiclesSpec => []CanInv
<1>1. CanInit \/ EthInit => CanInv
  BY CanInitially DEF CanInit, EthInit, CanInv
<1>2. CanInv /\ [CanNext \/ EthNext]_both => CanInv'
  <2> SUFFICES ASSUME CanInv, [CanNext \/ EthNext]_both PROVE CanInv'
    OBVIOUS
  <2>1. CASE CanNext
    BY <2>1, CanStateStep DEF CanNext, CanInv
  <2>2. CASE EthNext
    BY <2>2 DEF EthNext, CanInv
  <2>3. CASE UNCHANGED both
    <3>1. bus' = bus /\ UNCHANGED <<file, line, current, network, nodeVars>>
      BY <2>3 DEF both, vars, parserVars
    <3> QED BY <3>1, CanIdle DEF CanInv
  <2> QED BY <2>1, <2>2, <2>3
<1> QED BY <1>1, <1>2, PTL DEF VehiclesSpec

\* Only a tick takes time.
LEMMA OthersWait ==
  ASSUME Next, time' # time
  PROVE  Tick
BY DEF Next, Parse, Build, StartBuild, BuildEcu, BuildFails, Built, TickPanics, SetSignal, nodeVars

\* A tick sends a frame of a node whose message is sound just when its period is over:
\* never early, never late, never twice (embrig-models' config.rs, update).
THEOREM NodesSendOnTime == VehiclesSpec => SendsWhenDue
<1> DEFINE OnTime == time' # time =>
             \A i \in DOMAIN ecus : IsConfig(i) /\ Sound(ecus[i].message) =>
               ((\E f \in frames' : f.ecu = i)
                  <=> (sentAt[i] = -1 \/ time - sentAt[i] >= ecus[i].period))
<1>1. CanInv /\ [CanNext \/ EthNext]_both => [OnTime]_vars
  <2> SUFFICES ASSUME CanInv, [CanNext \/ EthNext]_both, time' # time PROVE OnTime
    OBVIOUS
  <2>1. CanNext
    BY DEF both, vars, nodeVars, EthNext
  <2>2. CanState /\ Tick
    BY <2>1, OthersWait DEF CanNext, CanInv
  <2> QED BY <2>2, TickSendsWhenDue
<1> QED BY <1>1, CanInvariant, PTL DEF VehiclesSpec, SendsWhenDue

-----------------------------------------------------------------------------
(* What the lines of a file say, by the number of lines read.              *)

Defined(f, i, id) == f[i].kind = "BO" /\ f[i].id = id
LastIn(f, n, id) ==
  LET found == {i \in 1 .. n : f[i].kind = "BO" /\ f[i].id = id}
  IN  IF found = {} THEN 0 ELSE CHOOSE i \in found : \A j \in found : j <= i
Under(f, last, i) == f[i].kind = "SG" /\ last < i /\ \A j \in last + 1 .. i : f[j].kind # "BO"
BodyIn(f, n, id) == {i \in 1 .. n : Under(f, LastIn(f, n, id), i)}
PlaceIn(f, n, id, at) == Cardinality({i \in BodyIn(f, n, id) : i <= at})
PairsIn(f, n, m, id, place, at) ==
  UNION {{l} \X DOMAIN f[l].pairs :
           l \in {k \in 1 .. n : /\ at < k
                                 /\ f[k].kind = "VAL"
                                 /\ f[k].id = id
                                 /\ SignalIndex(m, f[k].signal) = place}}
TableSays(f, table, pairs) ==
  /\ DOMAIN table = {f[q[1]].pairs[q[2]][1] : q \in pairs}
  /\ \A q \in pairs :
       (\A r \in pairs : f[r[1]].pairs[r[2]][1] = f[q[1]].pairs[q[2]][1] => NotAfter(r, q))
         => table[f[q[1]].pairs[q[2]][1]] = f[q[1]].pairs[q[2]][2]
SignalSays(f, n, m, id, at) ==
  LET s == m.signals[PlaceIn(f, n, id, at)]
  IN  /\ [s EXCEPT !.table = <<>>] = f[at].signal
      /\ TableSays(f, s.table, PairsIn(f, n, m, id, PlaceIn(f, n, id, at), at))
MessageSays(f, n, m, id) ==
  /\ m.name = f[LastIn(f, n, id)].name /\ m.dlc = f[LastIn(f, n, id)].dlc
  /\ Len(m.signals) = Cardinality(BodyIn(f, n, id))
  /\ \A at \in BodyIn(f, n, id) : SignalSays(f, n, m, id, at)

\* The property by its parts: the messages, and what the lines say of each.
LEMMA SaysNetwork ==
  ASSUME NEW n, n = line - 1
  PROVE  NetworkIsFile <=>
           /\ DOMAIN network = {file[i].id : i \in {j \in 1 .. n : file[j].kind = "BO"}}
           /\ \A id \in DOMAIN network : MessageSays(file, n, network[id], id)
<1>1. ASSUME NEW id PROVE LastBo(id) = LastIn(file, n, id)
  BY DEF LastBo, LastIn, Read
<1>2. ASSUME NEW id PROVE Body(id) = BodyIn(file, n, id)
  BY <1>1 DEF Body, BodyIn, Under, Read
<1>3. ASSUME NEW id, NEW at PROVE Place(id, at) = PlaceIn(file, n, id, at)
  BY <1>2 DEF Place, PlaceIn
<1>4. ASSUME NEW id, NEW place, NEW at
      PROVE  Pairs(id, place, at) = PairsIn(file, n, network[id], id, place, at)
  BY DEF Pairs, PairsIn, Read
<1>5. ASSUME NEW table, NEW pairs PROVE TableIs(table, pairs) <=> TableSays(file, table, pairs)
  BY DEF TableIs, TableSays, PairAt
<1>6. ASSUME NEW id, NEW at
      PROVE  SignalSays(file, n, network[id], id, at) <=>
               LET s == network[id].signals[Place(id, at)]
               IN  /\ [s EXCEPT !.table = <<>>] = file[at].signal
                   /\ TableIs(s.table, Pairs(id, Place(id, at), at))
  BY <1>3, <1>4, <1>5 DEF SignalSays
<1>7. ASSUME NEW id
      PROVE  MessageSays(file, n, network[id], id) <=>
               LET m == network[id]
               IN  /\ m.name = file[LastBo(id)].name /\ m.dlc = file[LastBo(id)].dlc
                   /\ Len(m.signals) = Cardinality(Body(id))
                   /\ \A at \in Body(id) :
                        LET s == m.signals[Place(id, at)]
                        IN  /\ [s EXCEPT !.table = <<>>] = file[at].signal
                            /\ TableIs(s.table, Pairs(id, Place(id, at), at))
  BY <1>1, <1>2, <1>6 DEF MessageSays
<1> QED BY <1>7 DEF NetworkIsFile, Read

\* The last definition of an id up to a line.
LEMMA LastIs ==
  ASSUME NEW f, NEW n \in Nat, NEW id, NEW b, b = LastIn(f, n, id)
  PROVE  /\ b \in 0 .. n
         /\ b # 0 => Defined(f, b, id)
         /\ \A j \in 1 .. n : Defined(f, j, id) => b # 0 /\ j <= b
<1> DEFINE found == {i \in 1 .. n : f[i].kind = "BO" /\ f[i].id = id}
<1>1. b = IF found = {} THEN 0 ELSE CHOOSE i \in found : \A j \in found : j <= i
  BY DEF LastIn
<1>2. CASE found = {}
  BY <1>1, <1>2 DEF Defined
<1>3. CASE found # {}
  <2>1. found \in SUBSET (1 .. n)
    OBVIOUS
  <2>2. b \in found /\ \A j \in found : j <= b
    <3> HIDE DEF found
    <3> QED BY <1>1, <1>3, <2>1, GreatestOf
  <2> QED BY <2>2 DEF Defined
<1> QED BY <1>2, <1>3

\* A further line defines the id again, or leaves its last definition.
LEMMA LastNext ==
  ASSUME NEW f, NEW n \in Nat, NEW id
  PROVE  /\ Defined(f, n + 1, id) => LastIn(f, n + 1, id) = n + 1
         /\ ~Defined(f, n + 1, id) => LastIn(f, n + 1, id) = LastIn(f, n, id)
<1> DEFINE b == LastIn(f, n, id)  c == LastIn(f, n + 1, id)
<1>1. /\ b \in 0 .. n
      /\ b # 0 => Defined(f, b, id)
      /\ \A j \in 1 .. n : Defined(f, j, id) => b # 0 /\ j <= b
  BY LastIs
<1>2. /\ c \in 0 .. n + 1
      /\ c # 0 => Defined(f, c, id)
      /\ \A j \in 1 .. n + 1 : Defined(f, j, id) => c # 0 /\ j <= c
  BY LastIs
<1> HIDE DEF b, c
<1>3. Defined(f, n + 1, id) => c = n + 1
  BY <1>2
<1>4. ASSUME ~Defined(f, n + 1, id) PROVE c = b
  <2>1. c # 0 => c \in 1 .. n
    BY <1>2, <1>4
  <2>2. c <= b
    BY <1>1, <1>2, <2>1
  <2>3. b <= c
    BY <1>1, <1>2
  <2> QED BY <1>1, <1>2, <2>2, <2>3
<1> QED BY <1>3, <1>4 DEF b, c

\* A further line adds at most itself to the lines under a definition.
LEMMA BodyNext ==
  ASSUME NEW f, NEW n \in Nat, NEW id, ~Defined(f, n + 1, id)
  PROVE  BodyIn(f, n + 1, id) =
           BodyIn(f, n, id) \cup {i \in {n + 1} : Under(f, LastIn(f, n, id), i)}
<1>1. LastIn(f, n + 1, id) = LastIn(f, n, id)
  BY LastNext
<1>2. 1 .. n + 1 = (1 .. n) \cup {n + 1}
  OBVIOUS
<1> QED BY <1>1, <1>2 DEF BodyIn

\* The places of the lines of a definition.
LEMMA PlacesIn ==
  ASSUME NEW f, NEW n \in Nat, NEW id
  PROVE  /\ IsFiniteSet(BodyIn(f, n, id)) /\ Cardinality(BodyIn(f, n, id)) \in Nat
         /\ \A at \in BodyIn(f, n, id) :
              PlaceIn(f, n, id, at) \in 1 .. Cardinality(BodyIn(f, n, id))
<1> DEFINE B == BodyIn(f, n, id)
<1>1. B \subseteq 1 .. n /\ IsFiniteSet(1 .. n)
  BY FS_Interval DEF BodyIn
<1> HIDE DEF B
<1>2. IsFiniteSet(B) /\ Cardinality(B) \in Nat
  BY <1>1, FS_Subset, FS_CardinalityType
<1>3. ASSUME NEW at \in B PROVE PlaceIn(f, n, id, at) \in 1 .. Cardinality(B)
  <2> DEFINE S == {i \in B : i <= at}
  <2>1. S \subseteq B /\ at \in S
    BY <1>1
  <2>2. PlaceIn(f, n, id, at) = Cardinality(S)
    BY DEF PlaceIn, B
  <2> HIDE DEF S
  <2>3. IsFiniteSet(S) /\ Cardinality(S) \in Nat /\ Cardinality(S) <= Cardinality(B)
    BY <1>2, <2>1, FS_Subset, FS_CardinalityType
  <2>4. Cardinality(S) # 0
    BY <2>1, <2>3, FS_EmptySet
  <2> QED BY <1>2, <2>2, <2>3, <2>4
<1> QED BY <1>2, <1>3 DEF B

\* The pairs of one more line that are for a signal.
MorePairs(f, n, m, id, place, at) ==
  {q \in {n + 1} \X DOMAIN f[n + 1].pairs :
     /\ at < n + 1 /\ f[n + 1].kind = "VAL" /\ f[n + 1].id = id
     /\ SignalIndex(m, f[n + 1].signal) = place}

\* A further line adds at most its own pairs to a signal's.
LEMMA PairsNext ==
  ASSUME NEW f, NEW n \in Nat, NEW m, NEW id, NEW place, NEW at
  PROVE  PairsIn(f, n + 1, m, id, place, at) =
           PairsIn(f, n, m, id, place, at) \cup MorePairs(f, n, m, id, place, at)
<1> DEFINE Counts(l) == /\ at < l /\ f[l].kind = "VAL" /\ f[l].id = id
                        /\ SignalIndex(m, f[l].signal) = place
           Own(l) == {l} \X DOMAIN f[l].pairs
           more == IF Counts(n + 1) THEN {n + 1} ELSE {}
           all(k) == {j \in 1 .. k : Counts(j)}
           U(S) == UNION {Own(l) : l \in S}
<1>1. 1 .. n + 1 = (1 .. n) \cup {n + 1}
  OBVIOUS
<1>2. \A k : PairsIn(f, k, m, id, place, at) = U(all(k))
  BY DEF PairsIn
<1>3. MorePairs(f, n, m, id, place, at) = U(more)
  BY DEF MorePairs
<1> HIDE DEF Counts, Own
<1>4. all(n + 1) = all(n) \cup more
  BY <1>1
<1>5. \A S, T : U(S \cup T) = U(S) \cup U(T)
  OBVIOUS
<1> HIDE DEF all, more, U
<1> QED BY <1>2, <1>3, <1>4, <1>5

\* A further line leaves the places of the signals before it.
LEMMA PlaceNext ==
  ASSUME NEW f, NEW n \in Nat, NEW id, ~Defined(f, n + 1, id), NEW at \in BodyIn(f, n, id)
  PROVE  PlaceIn(f, n + 1, id, at) = PlaceIn(f, n, id, at)
<1> DEFINE new == {i \in {n + 1} : Under(f, LastIn(f, n, id), i)}
<1>1. at \in 1 .. n /\ BodyIn(f, n + 1, id) = BodyIn(f, n, id) \cup new
  BY BodyNext DEF BodyIn
<1>2. \A i \in new : ~(i <= at)
  BY <1>1
<1> HIDE DEF new
<1>3. {i \in BodyIn(f, n + 1, id) : i <= at} = {i \in BodyIn(f, n, id) : i <= at}
  BY <1>1, <1>2
<1> QED BY <1>3 DEF PlaceIn

\* A line that is not about a signal leaves it.
LEMMA SignalStays ==
  ASSUME NEW f, NEW n \in Nat, NEW id, ~Defined(f, n + 1, id),
         NEW m, NEW after, NEW at \in BodyIn(f, n, id), SignalSays(f, n, m, id, at),
         NEW place, place = PlaceIn(f, n, id, at),
         after.signals[place] = m.signals[place],
         \A name : SignalIndex(after, name) = place <=> SignalIndex(m, name) = place,
         \/ f[n + 1].kind # "VAL" \/ f[n + 1].id # id
         \/ SignalIndex(m, f[n + 1].signal) # place
  PROVE  SignalSays(f, n + 1, after, id, at)
<1>1. PlaceIn(f, n + 1, id, at) = place
  BY PlaceNext
<1>2. PairsIn(f, n, after, id, place, at) = PairsIn(f, n, m, id, place, at)
  BY DEF PairsIn
<1>3. PairsIn(f, n + 1, after, id, place, at) = PairsIn(f, n, after, id, place, at)
  <2>1. MorePairs(f, n, after, id, place, at) = {}
    BY DEF MorePairs
  <2> QED BY <2>1, PairsNext
<1> QED BY <1>1, <1>2, <1>3 DEF SignalSays

\* A line about other messages leaves what the lines say of this one.
LEMMA Untouched ==
  ASSUME NEW f, NEW n \in Nat, NEW id, ~Defined(f, n + 1, id),
         ~Under(f, LastIn(f, n, id), n + 1),
         NEW m, MessageOk(m), MessageSays(f, n, m, id),
         \/ f[n + 1].kind # "VAL" \/ f[n + 1].id # id \/ SignalIndex(m, f[n + 1].signal) = 0
  PROVE  MessageSays(f, n + 1, m, id)
<1>1. LastIn(f, n + 1, id) = LastIn(f, n, id)
  BY LastNext
<1>2. BodyIn(f, n + 1, id) = BodyIn(f, n, id)
  <2> DEFINE new == {i \in {n + 1} : Under(f, LastIn(f, n, id), i)}
  <2>1. new = {}
    OBVIOUS
  <2>2. BodyIn(f, n + 1, id) = BodyIn(f, n, id) \cup new
    BY BodyNext
  <2> HIDE DEF new
  <2> QED BY <2>1, <2>2
<1>3. ASSUME NEW at \in BodyIn(f, n, id) PROVE SignalSays(f, n + 1, m, id, at)
  <2>1. PlaceIn(f, n, id, at) # 0
    BY PlacesIn
  <2>2. SignalSays(f, n, m, id, at)
    BY DEF MessageSays
  <2> QED BY <2>1, <2>2, SignalStays
<1> QED BY <1>1, <1>2, <1>3 DEF MessageSays

\* After a BO line the message is empty, as the lines say.
LEMMA BoSays ==
  ASSUME NEW f, NEW n \in Nat, NEW l, l = f[n + 1], l.kind = "BO"
  PROVE  MessageSays(f, n + 1, [id |-> l.id, name |-> l.name, dlc |-> l.dlc, signals |-> <<>>], l.id)
<1>1. LastIn(f, n + 1, l.id) = n + 1
  BY LastNext DEF Defined
<1>2. BodyIn(f, n + 1, l.id) = {}
  BY <1>1 DEF BodyIn, Under
<1> QED BY <1>1, <1>2, FS_EmptySet DEF MessageSays

\* The names at the places do not change when one more is added behind them.
LEMMA IndexLonger ==
  ASSUME NEW m, MessageOk(m), NEW s,
         NEW after, after = WithSignals(m, Longer(m.signals, s, Len(m.signals))), MessageOk(after),
         NEW place \in 1 .. Len(m.signals), NEW name
  PROVE  SignalIndex(after, name) = place <=> SignalIndex(m, name) = place
<1> DEFINE n == Len(m.signals)
           i == SignalIndex(m, name)  j == SignalIndex(after, name)
<1>1. n \in Nat /\ DOMAIN after.signals = 1 .. n + 1 /\ Len(after.signals) = n + 1
      /\ \A k \in 1 .. n : after.signals[k] = m.signals[k]
  <2>1. after.signals = Longer(m.signals, s, n) /\ n \in Nat
    BY SignalsAre DEF WithSignals
  <2>2. DOMAIN after.signals = 1 .. n + 1
    BY <2>1 DEF Longer
  <2>3. DOMAIN after.signals = 1 .. Len(after.signals) /\ Len(after.signals) \in Nat
    BY SignalsAre
  <2>4. Len(after.signals) = n + 1
    BY <2>1, <2>2, <2>3
  <2> QED BY <2>1, <2>2, <2>4 DEF Longer
<1>2. /\ i \in 0 .. n /\ (i # 0 => m.signals[i].name = name)
      /\ \A k \in 1 .. n : m.signals[k].name = name => i # 0 /\ i <= k
  BY IndexIs
<1>3. /\ j \in 0 .. n + 1 /\ (j # 0 => after.signals[j].name = name)
      /\ \A k \in 1 .. n + 1 : after.signals[k].name = name => j # 0 /\ j <= k
  BY <1>1, IndexIs
<1> HIDE DEF i, j, n
<1>4. i = place => j = place
  BY <1>1, <1>2, <1>3 DEF n
<1>5. j = place => i = place
  BY <1>1, <1>2, <1>3 DEF n
<1> QED BY <1>4, <1>5 DEF i, j

\* After an SG line the message has the signal too, as the lines say.
LEMMA SgSays ==
  ASSUME NEW f, NEW n \in Nat, NEW id, f[n + 1].kind = "SG",
         Under(f, LastIn(f, n, id), n + 1),
         NEW m, MessageOk(m), MessageSays(f, n, m, id),
         NEW s, s = f[n + 1].signal, SignalOk(s), s.table = <<>>,
         NEW after, after = WithSignals(m, Longer(m.signals, s, Len(m.signals))), MessageOk(after)
  PROVE  MessageSays(f, n + 1, after, id)
<1> DEFINE k == Len(m.signals)
           B == BodyIn(f, n, id)
<1>1. ~Defined(f, n + 1, id) /\ LastIn(f, n + 1, id) = LastIn(f, n, id)
  BY LastNext DEF Defined
<1>2. BodyIn(f, n + 1, id) = B \cup {n + 1} /\ n + 1 \notin B /\ B \subseteq 1 .. n
  BY <1>1, BodyNext DEF BodyIn
<1>3. k \in Nat /\ k = Cardinality(B) /\ IsFiniteSet(B)
  BY SignalsAre, PlacesIn DEF MessageSays
<1>4. Cardinality(BodyIn(f, n + 1, id)) = k + 1
  <2> HIDE DEF B, k
  <2> QED BY <1>2, <1>3, FS_AddElement
<1>5. /\ after.name = m.name /\ after.dlc = m.dlc
      /\ Len(after.signals) = k + 1
      /\ \A j \in 1 .. k : after.signals[j] = m.signals[j]
      /\ after.signals[k + 1] = s
  <2>1. after.signals = Longer(m.signals, s, k) /\ after.name = m.name /\ after.dlc = m.dlc
    BY DEF WithSignals
  <2> HIDE DEF k, B
  <2>2. DOMAIN after.signals = 1 .. k + 1
    BY <1>3, <2>1 DEF Longer
  <2>3. DOMAIN after.signals = 1 .. Len(after.signals) /\ Len(after.signals) \in Nat
    BY SignalsAre
  <2>4. Len(after.signals) = k + 1
    BY <1>3, <2>2, <2>3
  <2>5. \A j \in 1 .. k : Longer(m.signals, s, k)[j] = m.signals[j]
    BY <1>3 DEF Longer
  <2>6. Longer(m.signals, s, k)[k + 1] = s
    BY <1>3 DEF Longer
  <2> QED BY <2>1, <2>4, <2>5, <2>6
<1>6. ASSUME NEW at \in B PROVE SignalSays(f, n + 1, after, id, at)
  <2> DEFINE place == PlaceIn(f, n, id, at)
  <2>1. place \in 1 .. k
    BY <1>3, PlacesIn
  <2>2. after.signals[place] = m.signals[place]
    BY <1>5, <2>1
  <2>3. \A name : SignalIndex(after, name) = place <=> SignalIndex(m, name) = place
    <3>1. place \in 1 .. Len(m.signals)
      BY <2>1
    <3> HIDE DEF place, k, B
    <3>2. \A name : SignalIndex(after, name) = place <=> SignalIndex(m, name) = place
      BY <3>1, IndexLonger, SMTT(60)
    <3> QED BY <3>2
  <2>4. SignalSays(f, n, m, id, at)
    BY DEF MessageSays
  <2>5. f[n + 1].kind # "VAL"
    OBVIOUS
  <2> HIDE DEF place
  <2> QED BY <1>1, <2>2, <2>3, <2>4, <2>5, SignalStays DEF place
<1>7. SignalSays(f, n + 1, after, id, n + 1)
  <2>1. {i \in BodyIn(f, n + 1, id) : i <= n + 1} = BodyIn(f, n + 1, id)
    BY <1>2
  <2>2. PlaceIn(f, n + 1, id, n + 1) = k + 1
    BY <1>4, <2>1 DEF PlaceIn
  <2>3. PairsIn(f, n + 1, after, id, k + 1, n + 1) = {}
    <3>1. {j \in 1 .. n + 1 : /\ n + 1 < j /\ f[j].kind = "VAL" /\ f[j].id = id
                              /\ SignalIndex(after, f[j].signal) = k + 1} = {}
      OBVIOUS
    <3> QED BY <3>1 DEF PairsIn
  <2>4. TableSays(f, <<>>, {})
    BY DEF TableSays
  <2>5. [s EXCEPT !.table = <<>>] = s
    <3>1. [s EXCEPT !.table = <<>>] = WithTable(s, <<>>)
      BY Changed
    <3> QED BY <3>1 DEF WithTable, SignalOk
  <2> HIDE DEF k
  <2> QED BY <1>5, <2>2, <2>3, <2>4, <2>5 DEF SignalSays
<1>8. \A at \in BodyIn(f, n + 1, id) : SignalSays(f, n + 1, after, id, at)
  <2> HIDE DEF B
  <2> QED BY <1>2, <1>6, <1>7
<1> QED BY <1>1, <1>4, <1>5, <1>8 DEF MessageSays

-----------------------------------------------------------------------------
(* Value lines.                                                            *)

\* A value table leaves the index of every name.
LEMMA IndexTabled ==
  ASSUME NEW m, MessageOk(m), NEW i \in 1 .. Len(m.signals), NEW t,
         NEW after, after = Tabled(m, i, t), MessageOk(after), NEW name
  PROVE  SignalIndex(after, name) = SignalIndex(m, name)
<1> DEFINE n == Len(m.signals)
           a == SignalIndex(m, name)  b == SignalIndex(after, name)
<1>1. /\ n \in Nat /\ Len(after.signals) = n
      /\ \A k \in 1 .. n : after.signals[k].name = m.signals[k].name
  <2>1. n \in Nat
    BY SignalsAre
  <2>2. after.signals = [j \in 1 .. n |-> IF j = i THEN WithTable(m.signals[i], t) ELSE m.signals[j]]
    BY DEF Tabled, WithSignals
  <2>3. WithTable(m.signals[i], t).name = m.signals[i].name
    BY DEF WithTable
  <2>4. DOMAIN after.signals = 1 .. Len(after.signals) /\ Len(after.signals) \in Nat
    BY SignalsAre
  <2> HIDE DEF n
  <2>5. DOMAIN after.signals = 1 .. n
    BY <2>2
  <2>6. Len(after.signals) = n
    BY <2>1, <2>4, <2>5
  <2> QED BY <2>1, <2>2, <2>3, <2>6
<1>2. /\ a \in 0 .. n /\ (a # 0 => m.signals[a].name = name)
      /\ \A k \in 1 .. n : m.signals[k].name = name => a # 0 /\ a <= k
  BY IndexIs
<1>3. /\ b \in 0 .. n /\ (b # 0 => after.signals[b].name = name)
      /\ \A k \in 1 .. n : after.signals[k].name = name => b # 0 /\ b <= k
  BY <1>1, IndexIs
<1> HIDE DEF a, b, n
<1>4. a = b
  BY <1>1, <1>2, <1>3
<1> QED BY <1>4 DEF a, b

\* One more pair, behind those a table shows.
LEMMA OnePairMore ==
  ASSUME NEW f, NEW table, NEW P, TableSays(f, table, P),
         NEW q0, \A r \in P : ~NotAfter(q0, r),
         NEW raw, raw = f[q0[1]].pairs[q0[2]][1],
         NEW symbol, symbol = f[q0[1]].pairs[q0[2]][2]
  PROVE  TableSays(f, Put(table, raw, symbol), P \cup {q0})
<1> DEFINE Key(q) == f[q[1]].pairs[q[2]][1]  Val(q) == f[q[1]].pairs[q[2]][2]
           t == Put(table, raw, symbol)
<1>1. raw = Key(q0) /\ symbol = Val(q0)
  OBVIOUS
<1>2. /\ DOMAIN table = {Key(q) : q \in P}
      /\ \A q \in P : (\A r \in P : Key(r) = Key(q) => NotAfter(r, q)) => table[Key(q)] = Val(q)
  BY DEF TableSays
<1> HIDE DEF Key, Val
<1>3. DOMAIN t = DOMAIN table \cup {raw}
      /\ \A k \in DOMAIN t : t[k] = IF k = raw THEN symbol ELSE table[k]
  BY DEF Put
<1> HIDE DEF t
<1>4. DOMAIN t = {Key(q) : q \in P \cup {q0}}
  BY <1>1, <1>2, <1>3
<1>5. ASSUME NEW q \in P \cup {q0}, \A r \in P \cup {q0} : Key(r) = Key(q) => NotAfter(r, q)
      PROVE  t[Key(q)] = Val(q)
  <2>1. CASE q = q0
    BY <1>1, <1>3, <2>1
  <2>2. CASE q # q0
    <3>1. q \in P /\ Key(q) # raw
      BY <1>1, <1>5, <2>2
    <3>2. table[Key(q)] = Val(q)
      BY <1>2, <1>5, <3>1
    <3> QED BY <1>3, <1>4, <3>1, <3>2
  <2> QED BY <2>1, <2>2
<1> QED BY <1>4, <1>5 DEF TableSays, Key, Val, t

\* A line of pairs, behind those a table shows.
LEMMA LineMore ==
  ASSUME NEW f, NEW l \in Nat, NEW pairs, pairs = f[l].pairs,
         IsList(pairs, Len(pairs)), Len(pairs) \in Nat,
         NEW table, table = [raw \in DOMAIN table |-> table[raw]],
         NEW P, \A q \in P : q[1] \in Nat /\ q[1] < l,
         TableSays(f, table, P)
  PROVE  TableSays(f, Folded(table, pairs), P \cup ({l} \X DOMAIN pairs))
<1> DEFINE n == Len(pairs)
           Q(k) == P \cup ({l} \X (1 .. k))
<1>1. PICK c : Inserts(c, table, pairs) /\ Folded(table, pairs) = c[n]
  BY TableSteps
<1> DEFINE Upto == {k \in Nat : k <= n => TableSays(f, c[k], Q(k))}
<1>2. 0 \in Upto
  <2>1. Q(0) = P /\ c[0] = table
    BY <1>1 DEF Inserts
  <2> QED BY <2>1
<1>3. ASSUME NEW k \in Nat, k \in Upto PROVE k + 1 \in Upto
  <2> SUFFICES ASSUME k + 1 <= n PROVE TableSays(f, c[k + 1], Q(k + 1))
    OBVIOUS
  <2> DEFINE q0 == <<l, k + 1>>  raw == pairs[k + 1][1]  symbol == pairs[k + 1][2]
  <2>1. TableSays(f, c[k], Q(k))
    BY <1>3
  <2>2. ASSUME NEW r \in Q(k) PROVE ~NotAfter(q0, r)
    <3>1. CASE r \in P
      <4>1. ~(l < r[1]) /\ l # r[1]
        BY <3>1
      <4> QED BY <4>1 DEF NotAfter
    <3>2. CASE r \in {l} \X (1 .. k)
      <4>1. r[1] = l /\ r[2] \in 1 .. k
        BY <3>2
      <4>2. ~(l < l) /\ ~(k + 1 <= r[2])
        BY <4>1
      <4> QED BY <4>1, <4>2 DEF NotAfter
    <3> QED BY <3>1, <3>2
  <2>3. f[q0[1]].pairs[q0[2]] = pairs[k + 1]
    OBVIOUS
  <2>4. Q(k + 1) = Q(k) \cup {q0}
    <3>1. 1 .. k + 1 = (1 .. k) \cup {k + 1}
      OBVIOUS
    <3> QED BY <3>1
  <2>5. c[k + 1] = Put(c[k], raw, symbol)
    <3>1. k + 1 \in 1 .. n /\ (k + 1) - 1 = k
      OBVIOUS
    <3>2. c[k + 1] = Insert1(c[(k + 1) - 1], pairs[k + 1])
      BY <1>1, <3>1 DEF Inserts
    <3> QED BY <3>1, <3>2 DEF Insert1
  <2>6. raw = f[q0[1]].pairs[q0[2]][1] /\ symbol = f[q0[1]].pairs[q0[2]][2]
    BY <2>3
  <2> HIDE DEF Q, q0, raw, symbol
  <2>7. TableSays(f, Put(c[k], raw, symbol), Q(k) \cup {q0})
    BY <2>1, <2>2, <2>6, OnePairMore
  <2> QED BY <2>4, <2>5, <2>7
<1>4. \A k \in Nat : k \in Upto
  <2> HIDE DEF Upto
  <2> QED BY <1>2, <1>3, Induction
<1>5. TableSays(f, c[n], Q(n))
  <2>1. n \in Nat
    OBVIOUS
  <2> HIDE DEF n, Upto, Q
  <2>2. n <= n /\ n \in Upto
    BY <1>4, <2>1
  <2> QED BY <2>1, <2>2 DEF Upto
<1>6. DOMAIN pairs = 1 .. n
  BY DEF IsList
<1> QED BY <1>1, <1>5, <1>6

\* After a VAL line the signal's table is what the lines say.
LEMMA ValSays ==
  ASSUME NEW f, NEW n \in Nat, NEW id, NEW l, l = f[n + 1], l.kind = "VAL", l.id = id,
         IsList(l.pairs, Len(l.pairs)), Len(l.pairs) \in Nat,
         NEW m, MessageOk(m), MessageSays(f, n, m, id),
         NEW i, i = SignalIndex(m, l.signal), i # 0,
         NEW after, after = Tabled(m, i, Folded(m.signals[i].table, l.pairs)), MessageOk(after)
  PROVE  MessageSays(f, n + 1, after, id)
<1> DEFINE k == Len(m.signals)
           t == Folded(m.signals[i].table, l.pairs)
           B == BodyIn(f, n, id)
<1>1. ~Defined(f, n + 1, id) /\ LastIn(f, n + 1, id) = LastIn(f, n, id)
  BY LastNext DEF Defined
<1>2. BodyIn(f, n + 1, id) = B
  <2> DEFINE new == {j \in {n + 1} : Under(f, LastIn(f, n, id), j)}
  <2>1. new = {}
    BY DEF Under
  <2>2. BodyIn(f, n + 1, id) = BodyIn(f, n, id) \cup new
    BY <1>1, BodyNext
  <2> HIDE DEF new
  <2> QED BY <2>1, <2>2
<1>3. i \in 1 .. k /\ k \in Nat /\ SignalOk(m.signals[i])
  <2>1. k \in Nat
    BY SignalsAre
  <2>2. i \in 0 .. k
    BY IndexIs
  <2>3. i \in 1 .. k
    BY <2>1, <2>2
  <2> QED BY <2>1, <2>3 DEF MessageOk
<1>4. /\ after.name = m.name /\ after.dlc = m.dlc
      /\ after.signals = [j \in 1 .. k |-> IF j = i THEN WithTable(m.signals[i], t) ELSE m.signals[j]]
  BY DEF Tabled, WithSignals
<1>5. \A name : SignalIndex(after, name) = SignalIndex(m, name)
  BY <1>3, IndexTabled
<1>6. Len(after.signals) = k
  <2>1. DOMAIN after.signals = 1 .. Len(after.signals) /\ Len(after.signals) \in Nat
    BY SignalsAre
  <2> HIDE DEF k, t
  <2>2. DOMAIN after.signals = 1 .. k
    BY <1>4
  <2>3. k \in Nat
    BY <1>3
  <2>4. \A a, b \in Nat : 1 .. a = 1 .. b => a = b
    OBVIOUS
  <2> QED BY <2>1, <2>2, <2>3, <2>4, Zenon
<1>7. ASSUME NEW at \in B PROVE SignalSays(f, n + 1, after, id, at)
  <2> DEFINE place == PlaceIn(f, n, id, at)
  <2>1. place \in 1 .. k /\ SignalSays(f, n, m, id, at)
    BY PlacesIn DEF MessageSays
  <2>2. CASE place # i
    <3>1. after.signals[place] = m.signals[place]
      BY <1>4, <2>1, <2>2
    <3>2. \A name : SignalIndex(after, name) = place <=> SignalIndex(m, name) = place
      BY <1>5
    <3>3. SignalIndex(m, f[n + 1].signal) # place
      BY <2>2
    <3> HIDE DEF place
    <3> QED BY <1>1, <2>1, <3>1, <3>2, <3>3, SignalStays DEF place
  <2>3. CASE place = i
    <3> DEFINE s == m.signals[i]  P == PairsIn(f, n, m, id, i, at)
    <3>1. after.signals[i] = WithTable(s, t)
      BY <1>3, <1>4
    <3>2. PlaceIn(f, n + 1, id, at) = i
      BY <1>1, <2>3, PlaceNext
    <3>3. [s EXCEPT !.table = <<>>] = f[at].signal /\ TableSays(f, s.table, P)
      BY <2>1, <2>3 DEF SignalSays
    <3>4. [WithTable(s, t) EXCEPT !.table = <<>>] = [s EXCEPT !.table = <<>>]
      <4>1. [s EXCEPT !.table = <<>>] = WithTable(s, <<>>)
        BY <1>3, Changed
      <4> HIDE DEF t, s
      <4>2. [WithTable(s, t) EXCEPT !.table = <<>>] = WithTable(s, <<>>)
        BY DEF WithTable
      <4> QED BY <4>1, <4>2
    <3>5. at \in 1 .. n
      BY DEF BodyIn
    <3>6. PairsIn(f, n + 1, after, id, i, at) = P \cup ({n + 1} \X DOMAIN l.pairs)
      <4>1. PairsIn(f, n, after, id, i, at) = P
        BY <1>5 DEF PairsIn
      <4>2. MorePairs(f, n, after, id, i, at) = {n + 1} \X DOMAIN l.pairs
        <5>1. at < n + 1 /\ SignalIndex(after, f[n + 1].signal) = i
          BY <1>5, <3>5
        <5> QED BY <5>1 DEF MorePairs
      <4> HIDE DEF P
      <4> QED BY <4>1, <4>2, PairsNext
    <3>7. \A q \in P : q[1] \in Nat /\ q[1] < n + 1
      BY DEF PairsIn
    <3>8. TableSays(f, t, P \cup ({n + 1} \X DOMAIN l.pairs))
      <4> HIDE DEF s, P
      <4>1. SignalOk(s) /\ n + 1 \in Nat
        BY <1>3 DEF s
      <4>2. s.table = [raw \in DOMAIN s.table |-> s.table[raw]]
        BY <4>1 DEF SignalOk
      <4>3. TableSays(f, Folded(s.table, l.pairs), P \cup ({n + 1} \X DOMAIN l.pairs))
        BY <3>3, <3>7, <4>1, <4>2, LineMore
      <4> QED BY <4>3 DEF s
    <3>9. WithTable(s, t).table = t
      BY DEF WithTable
    <3> HIDE DEF s, t, P, place
    <3> QED BY <3>1, <3>2, <3>3, <3>4, <3>6, <3>8, <3>9 DEF SignalSays
  <2> QED BY <2>2, <2>3
<1> HIDE DEF B, k, t
<1> QED BY <1>1, <1>2, <1>4, <1>6, <1>7 DEF MessageSays, B, k

-----------------------------------------------------------------------------
(* At every line the network is what the lines so far say.                 *)

\* The message signals are added to is that of the last definition read.
CurrentSays(f, n, id) ==
  IF id = -1 THEN \A i \in 1 .. n : f[i].kind # "BO"
  ELSE \E b \in 1 .. n : Defined(f, b, id) /\ \A j \in b + 1 .. n : f[j].kind # "BO"

NetworkSays(f, n, net) ==
  /\ DOMAIN net = {f[i].id : i \in {j \in 1 .. n : f[j].kind = "BO"}}
  /\ \A id \in DOMAIN net : MessageSays(f, n, net[id], id)

ParsedOk == NetworkSays(file, line - 1, network) /\ CurrentSays(file, line - 1, current)

\* A signal line is one of the current message's and of no other's.
LEMMA BelongsTo ==
  ASSUME NEW f, NEW n \in Nat, f[n + 1].kind = "SG", NEW c \in Nat, CurrentSays(f, n, c), NEW id
  PROVE  Under(f, LastIn(f, n, id), n + 1) <=> id = c
<1>1. PICK b \in 1 .. n : Defined(f, b, c) /\ \A j \in b + 1 .. n : f[j].kind # "BO"
  BY DEF CurrentSays
<1> DEFINE last == LastIn(f, n, id)
<1>2. /\ last \in 0 .. n
      /\ last # 0 => Defined(f, last, id)
      /\ \A j \in 1 .. n : Defined(f, j, id) => last # 0 /\ j <= last
  BY LastIs
<1>3. Under(f, last, n + 1) <=> \A j \in last + 1 .. n + 1 : f[j].kind # "BO"
  BY <1>2 DEF Under
<1> HIDE DEF last
<1>4. last <= b
  <2>1. last # 0 => f[last].kind = "BO"
    BY <1>2 DEF Defined
  <2> QED BY <1>1, <1>2, <2>1
<1>5. CASE id = c
  <2>1. last = b
    BY <1>1, <1>2, <1>4, <1>5
  <2>2. ASSUME NEW j \in last + 1 .. n + 1 PROVE f[j].kind # "BO"
    <3>1. j \in b + 1 .. n \/ j = n + 1
      BY <2>1
    <3> QED BY <1>1, <3>1
  <2> QED BY <1>3, <1>5, <2>2 DEF last
<1>6. CASE id # c
  <2>1. last # b
    BY <1>1, <1>2, <1>6 DEF Defined
  <2>2. b \in last + 1 .. n + 1
    BY <1>2, <1>4, <2>1
  <2>3. f[b].kind = "BO"
    BY <1>1 DEF Defined
  <2> QED BY <1>3, <1>6, <2>2, <2>3 DEF last
<1> QED BY <1>5, <1>6 DEF last

\* Lines that define nothing leave what is current, and which messages there are.
LEMMA SameCurrent ==
  ASSUME NEW f, NEW n \in Nat, f[n + 1].kind # "BO", NEW id
  PROVE  /\ CurrentSays(f, n, id) => CurrentSays(f, n + 1, id)
         /\ {f[i].id : i \in {j \in 1 .. n + 1 : f[j].kind = "BO"}}
              = {f[i].id : i \in {j \in 1 .. n : f[j].kind = "BO"}}
<1>1. \A i \in 1 .. n + 1 : i \in 1 .. n \/ i = n + 1
  OBVIOUS
<1>2. ASSUME CurrentSays(f, n, id) PROVE CurrentSays(f, n + 1, id)
  <2>1. CASE id = -1
    BY <1>1, <1>2, <2>1 DEF CurrentSays
  <2>2. CASE id # -1
    <3>1. PICK b \in 1 .. n : Defined(f, b, id) /\ \A j \in b + 1 .. n : f[j].kind # "BO"
      BY <1>2, <2>2 DEF CurrentSays
    <3>2. \A j \in b + 1 .. n + 1 : f[j].kind # "BO"
      <4>1. \A j \in b + 1 .. n + 1 : j \in b + 1 .. n \/ j = n + 1
        OBVIOUS
      <4> QED BY <3>1, <4>1
    <3> QED BY <2>2, <3>1, <3>2 DEF CurrentSays
  <2> QED BY <2>1, <2>2
<1>3. {j \in 1 .. n + 1 : f[j].kind = "BO"} = {j \in 1 .. n : f[j].kind = "BO"}
  BY <1>1
<1> QED BY <1>2, <1>3

\* What a line that is not a definition makes of the network, message by message.
LEMMA OtherLine ==
  ASSUME NEW f, NEW n \in Nat, f[n + 1].kind # "BO", NEW c, NEW net, NEW after,
         NetworkSays(f, n, net), CurrentSays(f, n, c), DOMAIN after = DOMAIN net,
         \A id \in DOMAIN net : MessageSays(f, n + 1, after[id], id)
  PROVE  NetworkSays(f, n + 1, after) /\ CurrentSays(f, n + 1, c)
<1>1. CurrentSays(f, n + 1, c)
  BY SameCurrent
<1>2. DOMAIN after = {f[i].id : i \in {j \in 1 .. n + 1 : f[j].kind = "BO"}}
  BY SameCurrent DEF NetworkSays
<1> QED BY <1>1, <1>2 DEF NetworkSays

\* A step of the parser keeps the network what the lines so far say.
LEMMA ParserSays ==
  ASSUME CanState, CanState', ParsedOk, ParseLine
  PROVE  ParsedOk'
<1>1. PICK n \in Nat : n = line - 1 /\ line = n + 1
  BY DEF CanState
<1>2. PICK f : f = file
  OBVIOUS
<1>3. /\ DOMAIN network = {f[i].id : i \in {j \in 1 .. n : f[j].kind = "BO"}}
      /\ \A id \in DOMAIN network : MessageSays(f, n, network[id], id) /\ MessageOk(network[id])
      /\ \A id \in DOMAIN network' : MessageOk(network'[id])
      /\ NetworkSays(f, n, network) /\ CurrentSays(f, n, current)
  BY <1>1, <1>2 DEF ParsedOk, NetworkSays, CanState, NetworkOk
<1>4. ASSUME line' = line + 1, file' = file,
             NetworkSays(f, n + 1, network'), CurrentSays(f, n + 1, current')
      PROVE  ParsedOk'
  <2>1. line' - 1 = n + 1 /\ file' = f
    BY <1>1, <1>2, <1>4
  <2> QED BY <1>4, <2>1 DEF ParsedOk
<1>5. CASE ParseBo
  <2> DEFINE l == f[n + 1]
             new == [id |-> l.id, name |-> l.name, dlc |-> l.dlc, signals |-> <<>>]
  <2>1. /\ l.id \in Nat
        /\ network' = [id \in DOMAIN network \cup {l.id} |->
                         IF id = l.id THEN new ELSE network[id]]
        /\ current' = l.id /\ line' = line + 1 /\ file' = file /\ l.kind = "BO"
    BY <1>1, <1>2, <1>5, BoIs, LineIs DEF ParseBo
  <2>2. MessageSays(f, n + 1, new, l.id)
    BY <2>1, BoSays
  <2>3. ASSUME NEW id \in DOMAIN network, id # l.id
        PROVE  MessageSays(f, n + 1, network[id], id)
    <3>1. ~Defined(f, n + 1, id) /\ ~Under(f, LastIn(f, n, id), n + 1) /\ f[n + 1].kind # "VAL"
      BY <2>1, <2>3 DEF Defined, Under
    <3> QED BY <1>3, <3>1, Untouched
  <2>4. {f[i].id : i \in {j \in 1 .. n + 1 : f[j].kind = "BO"}} = DOMAIN network \cup {l.id}
    <3>1. {j \in 1 .. n + 1 : f[j].kind = "BO"} = {j \in 1 .. n : f[j].kind = "BO"} \cup {n + 1}
      BY <2>1
    <3> QED BY <1>3, <3>1
  <2>5. CurrentSays(f, n + 1, l.id)
    BY <2>1 DEF CurrentSays, Defined
  <2> HIDE DEF l, new
  <2>6. NetworkSays(f, n + 1, network')
    BY <2>1, <2>2, <2>3, <2>4 DEF NetworkSays
  <2> QED BY <1>4, <2>1, <2>5, <2>6
<1>6. CASE ParseSg
  <2> DEFINE l == f[n + 1]  m == network[current]
             new == WithSignals(m, Longer(m.signals, l.signal, Len(m.signals)))
  <2>1. /\ SignalOk(l.signal) /\ current \in DOMAIN network /\ MessageOk(m) /\ current # -1
        /\ network' = [id \in DOMAIN network |-> IF id = current THEN new ELSE network[id]]
        /\ current' = current /\ line' = line + 1 /\ file' = file
        /\ l.kind = "SG" /\ LineDef(l)
    <3>1. l = file[line]
      BY <1>1, <1>2
    <3>2. l.kind = "SG" /\ LineDef(l) /\ current # -1
      BY <1>6, <3>1, LineIs DEF ParseSg
    <3> HIDE DEF l
    <3>3. /\ SignalOk(l.signal) /\ current \in DOMAIN network /\ MessageOk(m)
          /\ network' = [id \in DOMAIN network |-> IF id = current THEN new ELSE network[id]]
          /\ current' = current /\ line' = line + 1 /\ file' = file
      BY <1>6, <3>1, SgIs
    <3> QED BY <3>2, <3>3
  <2>2. current \in Nat /\ l.signal.table = <<>>
    BY <2>1 DEF CanState, NetworkOk, LineDef
  <2>3. MessageSays(f, n + 1, new, current)
    <3>1. Under(f, LastIn(f, n, current), n + 1)
      BY <1>3, <2>1, <2>2, BelongsTo
    <3>2. MessageOk(new)
      BY <1>3, <2>1
    <3> QED BY <1>3, <2>1, <2>2, <3>1, <3>2, SgSays
  <2>4. ASSUME NEW id \in DOMAIN network, id # current
        PROVE  MessageSays(f, n + 1, network[id], id)
    <3>1. ~Under(f, LastIn(f, n, id), n + 1)
      BY <1>3, <2>1, <2>2, <2>4, BelongsTo
    <3>2. ~Defined(f, n + 1, id) /\ f[n + 1].kind # "VAL"
      BY <2>1 DEF Defined
    <3> QED BY <1>3, <3>1, <3>2, Untouched
  <2> HIDE DEF new
  <2>5. NetworkSays(f, n + 1, network') /\ CurrentSays(f, n + 1, current)
    BY <1>3, <2>1, <2>3, <2>4, OtherLine
  <2> QED BY <1>4, <2>1, <2>5
<1>7. CASE ParseVal
  <2> DEFINE l == f[n + 1]  m == network[l.id]  i == SignalIndex(m, l.signal)
             new == Tabled(m, i, Folded(m.signals[i].table, l.pairs))
  <2>1. /\ IsList(l.pairs, Len(l.pairs)) /\ Len(l.pairs) \in Nat
        /\ l.id \notin DOMAIN network => UNCHANGED network
        /\ l.id \in DOMAIN network /\ i = 0 => UNCHANGED network
        /\ l.id \in DOMAIN network /\ i # 0 =>
             network' = [id \in DOMAIN network |-> IF id = l.id THEN new ELSE network[id]]
        /\ current' = current /\ line' = line + 1 /\ file' = file /\ l.kind = "VAL"
    <3>1. l = file[line]
      BY <1>1, <1>2
    <3>2. l.kind = "VAL"
      BY <1>7, <3>1, LineIs DEF ParseVal
    <3> HIDE DEF l
    <3>3. /\ IsList(l.pairs, Len(l.pairs)) /\ Len(l.pairs) \in Nat
          /\ l.id \notin DOMAIN network => UNCHANGED network
          /\ l.id \in DOMAIN network /\ i = 0 => UNCHANGED network
          /\ l.id \in DOMAIN network /\ i # 0 =>
               network' = [id \in DOMAIN network |-> IF id = l.id THEN new ELSE network[id]]
          /\ current' = current /\ line' = line + 1 /\ file' = file
      BY <1>7, <3>1, ValIs
    <3> QED BY <3>2, <3>3
  <2>2. ASSUME NEW id \in DOMAIN network, id # l.id \/ i = 0
        PROVE  MessageSays(f, n + 1, network[id], id)
    <3>1. ~Under(f, LastIn(f, n, id), n + 1) /\ ~Defined(f, n + 1, id)
      BY <2>1 DEF Defined, Under
    <3>2. f[n + 1].id # id \/ SignalIndex(network[id], f[n + 1].signal) = 0
      BY <2>2
    <3> QED BY <1>3, <3>1, <3>2, Untouched
  <2>3. ASSUME l.id \in DOMAIN network, i # 0 PROVE MessageSays(f, n + 1, new, l.id)
    <3>1. MessageOk(new)
      <4> HIDE DEF new, m, i, l
      <4>1. network' = [id \in DOMAIN network |-> IF id = l.id THEN new ELSE network[id]]
        BY <2>1, <2>3
      <4>2. l.id \in DOMAIN network' /\ network'[l.id] = new
        BY <2>3, <4>1
      <4> QED BY <1>3, <4>2
    <3>2. MessageOk(m) /\ MessageSays(f, n, m, l.id)
      BY <1>3, <2>3
    <3> QED BY <2>1, <2>3, <3>1, <3>2, ValSays
  <2> HIDE DEF new, m, i, l
  <2>4. DOMAIN network' = DOMAIN network
        /\ \A id \in DOMAIN network : MessageSays(f, n + 1, network'[id], id)
    BY <2>1, <2>2, <2>3
  <2>5. f[n + 1].kind # "BO"
    BY <2>1 DEF l
  <2>6. NetworkSays(f, n + 1, network') /\ CurrentSays(f, n + 1, current)
    BY <1>3, <2>4, <2>5, OtherLine
  <2> QED BY <1>4, <2>1, <2>6
<1>8. CASE SkipLine
  <2>1. line' = line + 1 /\ UNCHANGED <<file, current, network>> /\ f[n + 1].kind = "other"
    BY <1>1, <1>2, <1>8 DEF SkipLine, NextLine, AtLine
  <2>2. ASSUME NEW id \in DOMAIN network PROVE MessageSays(f, n + 1, network[id], id)
    <3>1. /\ ~Under(f, LastIn(f, n, id), n + 1) /\ ~Defined(f, n + 1, id)
          /\ f[n + 1].kind # "VAL"
      BY <2>1 DEF Defined, Under
    <3> QED BY <1>3, <3>1, Untouched
  <2>3. NetworkSays(f, n + 1, network) /\ CurrentSays(f, n + 1, current)
    BY <1>3, <2>1, <2>2, OtherLine
  <2> QED BY <1>4, <2>1, <2>3
<1>9. CASE ParseError
  BY <1>9 DEF ParseError, ParsedOk
<1> QED BY <1>5, <1>6, <1>7, <1>8, <1>9 DEF ParseLine

ParserInv == CanInv /\ ParsedOk

\* The network is what the lines so far say, and the current message the last one read.
LEMMA ParserInvariant == VehiclesSpec => []ParserInv
<1>1. CanInit \/ EthInit => ParserInv
  <2>1. ASSUME line = 1, current = -1, network = <<>> PROVE ParsedOk
    BY <2>1 DEF ParsedOk, NetworkSays, CurrentSays
  <2> QED BY <2>1, CanInitially DEF CanInit, EthInit, Init, InitParser, CanInv, ParserInv
<1>2. ParserInv /\ CanInv' /\ [CanNext \/ EthNext]_both => ParserInv'
  <2> SUFFICES ASSUME ParserInv, CanInv', [CanNext \/ EthNext]_both PROVE ParsedOk'
    BY DEF ParserInv
  <2>1. CanInv /\ ParsedOk
    BY DEF ParserInv
  <2>2. CASE UNCHANGED <<file, line, current, network>>
    BY <2>1, <2>2 DEF ParsedOk
  <2>3. CASE CanNext /\ Parse
    <3>1. CanState /\ CanState' /\ ParseLine
      BY <2>1, <2>3 DEF CanNext, CanInv, Parse
    <3> QED BY <2>1, <3>1, ParserSays
  <2>4. CASE CanNext /\ ~Parse
    BY <2>2, <2>4 DEF CanNext, Next, Build, StartBuild, BuildEcu, BuildFails, Built, Tick,
                      TickPanics, SetSignal, parserVars
  <2>5. CASE EthNext \/ UNCHANGED both
    BY <2>2, <2>5 DEF EthNext, both, vars, parserVars
  <2> QED BY <2>3, <2>4, <2>5
<1> QED BY <1>1, <1>2, CanInvariant, PTL DEF VehiclesSpec

\* At every line of every file the network holds just what the lines so far define:
\* the last definition of each id, its signals in order, and the tables the VAL lines
\* gave them (embrig-dbc's parser.rs, parse).
THEOREM NetworkShowsFile == VehiclesSpec => []NetworkIsFile
<1>1. ParserInv => NetworkIsFile
  BY SaysNetwork DEF ParserInv, ParsedOk, NetworkSays
<1> QED BY <1>1, ParserInvariant, PTL

-----------------------------------------------------------------------------
(* A number and its bits.                                                  *)

Doubles(h, n) ==
  /\ h \in [0 .. n -> Nat \ {0}] /\ h[0] = 1
  /\ \A i \in 1 .. n : h[i] = 2 * h[i - 1]

\* There are the powers of two up to any exponent.
LEMMA DoublesTo ==
  ASSUME NEW n \in Nat
  PROVE  \E h : Doubles(h, n)
<1> DEFINE Upto == {k \in Nat : \E h : Doubles(h, k)}
<1>1. 0 \in Upto
  <2> DEFINE h == [i \in 0 .. 0 |-> 1]
  <2>1. Doubles(h, 0)
    BY DEF Doubles
  <2> HIDE DEF h
  <2> QED BY <2>1
<1>2. ASSUME NEW k \in Nat, k \in Upto PROVE k + 1 \in Upto
  <2>1. PICK h : Doubles(h, k)
    BY <1>2
  <2> DEFINE g == [i \in 0 .. k + 1 |-> IF i = k + 1 THEN 2 * h[k] ELSE h[i]]
  <2>2. h[k] \in Nat \ {0}
    BY <2>1 DEF Doubles
  <2>3. \A i \in 0 .. k + 1 : i # k + 1 => i \in 0 .. k
    OBVIOUS
  <2>4. g \in [0 .. k + 1 -> Nat \ {0}]
    BY <2>1, <2>2, <2>3 DEF Doubles
  <2>5. ASSUME NEW i \in 1 .. k + 1 PROVE g[i] = 2 * g[i - 1]
    <3>1. i - 1 \in 0 .. k /\ g[i - 1] = h[i - 1]
      OBVIOUS
    <3>2. CASE i = k + 1
      BY <3>1, <3>2
    <3>3. CASE i # k + 1
      <4>1. i \in 1 .. k /\ g[i] = h[i]
        BY <3>3
      <4> QED BY <2>1, <3>1, <4>1 DEF Doubles
    <3> QED BY <3>2, <3>3
  <2>6. g[0] = 1
    BY <2>1 DEF Doubles
  <2> HIDE DEF g
  <2>7. Doubles(g, k + 1)
    BY <2>4, <2>5, <2>6 DEF Doubles
  <2> QED BY <2>7
<1> HIDE DEF Upto
<1>3. n \in Upto
  BY <1>1, <1>2, Induction
<1> QED BY <1>3 DEF Upto

\* They are the same up to whatever exponent they are taken.
LEMMA DoublesAgree ==
  ASSUME NEW n \in Nat, NEW m \in Nat, NEW g, Doubles(g, n), NEW h, Doubles(h, m),
         NEW k \in Nat, k <= n, k <= m
  PROVE  g[k] = h[k]
<1> DEFINE Upto == {i \in Nat : i <= k => g[i] = h[i]}
<1>1. 0 \in Upto
  BY DEF Doubles
<1>2. ASSUME NEW i \in Nat, i \in Upto PROVE i + 1 \in Upto
  <2> SUFFICES ASSUME i + 1 <= k PROVE g[i + 1] = h[i + 1]
    OBVIOUS
  <2>1. i + 1 \in 1 .. n /\ i + 1 \in 1 .. m /\ (i + 1) - 1 = i /\ i <= k
    OBVIOUS
  <2>2. g[i] = h[i]
    BY <1>2, <2>1
  <2>3. g[i + 1] = 2 * g[i] /\ h[i + 1] = 2 * h[i]
    BY <2>1 DEF Doubles
  <2> QED BY <2>2, <2>3
<1> HIDE DEF Upto
<1>3. k \in Upto
  BY <1>1, <1>2, Induction
<1> QED BY <1>3 DEF Upto

\* The powers of two.
LEMMA PowersAre ==
  /\ Power[0] = 1
  /\ \A i \in Nat : Power[i] \in Nat \ {0} /\ Power[i + 1] = 2 * Power[i]
<1> DEFINE To(n) == CHOOSE h : Doubles(h, n)
           Iter(h) == [i \in Nat |-> IF i = 0 THEN 1 ELSE 2 * h[i - 1]]
           g == [i \in Nat |-> To(i)[i]]
<1>1. \A n \in Nat : Doubles(To(n), n)
  BY DoublesTo
<1> HIDE DEF To
<1>2. g = Iter(g)
  <2>1. ASSUME NEW i \in Nat PROVE g[i] = IF i = 0 THEN 1 ELSE 2 * g[i - 1]
    <3>1. CASE i = 0
      BY <1>1, <3>1 DEF Doubles
    <3>2. CASE i # 0
      <4>1. i - 1 \in Nat /\ i \in 1 .. i
        BY <3>2
      <4>2. To(i)[i] = 2 * To(i)[i - 1]
        BY <1>1, <4>1 DEF Doubles
      <4>3. To(i)[i - 1] = To(i - 1)[i - 1]
        <5>1. Doubles(To(i), i) /\ Doubles(To(i - 1), i - 1) /\ i - 1 <= i /\ i - 1 <= i - 1
          BY <1>1, <4>1
        <5> QED BY <4>1, <5>1, DoublesAgree
      <4> QED BY <3>2, <4>1, <4>2, <4>3
    <3> QED BY <3>1, <3>2
  <2> HIDE DEF g
  <2>2. \A i \in Nat : g[i] = Iter(g)[i]
    BY <2>1
  <2>3. g = [i \in Nat |-> g[i]]
    BY DEF g
  <2> QED BY <2>2, <2>3
<1>3. Power = CHOOSE h : h = Iter(h)
  BY DEF Power
<1>4. Power = Iter(Power)
  <2> HIDE DEF g, Iter
  <2> QED BY <1>2, <1>3
<1>5. \A i \in Nat : Power[i] = IF i = 0 THEN 1 ELSE 2 * Power[i - 1]
  <2> DEFINE P == Power
  <2>1. P = Iter(P)
    BY <1>4
  <2> HIDE DEF P
  <2>2. \A i \in Nat : P[i] = IF i = 0 THEN 1 ELSE 2 * P[i - 1]
    BY <2>1
  <2> QED BY <2>2 DEF P
<1>6. Power[0] = 1
  BY <1>5
<1>7. \A i \in Nat : Power[i + 1] = 2 * Power[i]
  <2> SUFFICES ASSUME NEW i \in Nat PROVE Power[i + 1] = 2 * Power[i]
    OBVIOUS
  <2>1. i + 1 \in Nat /\ i + 1 # 0 /\ (i + 1) - 1 = i
    OBVIOUS
  <2> QED BY <1>5, <2>1
<1>8. \A i \in Nat : Power[i] \in Nat \ {0}
  <2> DEFINE S == {i \in Nat : Power[i] \in Nat \ {0}}
  <2>1. 0 \in S
    BY <1>6
  <2>2. \A i \in Nat : i \in S => i + 1 \in S
    BY <1>7
  <2> HIDE DEF S
  <2>3. \A i \in Nat : i \in S
    BY <2>1, <2>2, Induction
  <2> QED BY <2>3 DEF S
<1> QED BY <1>6, <1>7, <1>8

\* What the bits below n add up to, in whatever order they are taken.
Adds(f, n) ==
  /\ f \in [SUBSET (0 .. n - 1) -> Int] /\ f[{}] = 0
  /\ \A T \in SUBSET (0 .. n - 1) : \A x \in T : f[T] = f[T \ {x}] + Power[x]

\* Sums of bits, with one bit more.
LEMMA AddsNext ==
  ASSUME NEW n \in Nat, NEW f, Adds(f, n)
  PROVE  Adds([T \in SUBSET (0 .. n) |-> IF n \in T THEN f[T \ {n}] + Power[n] ELSE f[T]], n + 1)
<1> DEFINE g == [T \in SUBSET (0 .. n) |-> IF n \in T THEN f[T \ {n}] + Power[n] ELSE f[T]]
<1>1. (n + 1) - 1 = n
  OBVIOUS
<1>2. ASSUME NEW T \in SUBSET (0 .. n)
      PROVE  T \ {n} \in SUBSET (0 .. n - 1) /\ (n \notin T => T \in SUBSET (0 .. n - 1))
  OBVIOUS
<1>3. \A T \in SUBSET (0 .. n - 1) : f[T] \in Int
  BY DEF Adds
<1>4. Power[n] \in Int
  BY PowersAre
<1>5. g \in [SUBSET (0 .. n) -> Int]
  BY <1>2, <1>3, <1>4
<1>6. g[{}] = 0
  BY DEF Adds
<1>7. ASSUME NEW T \in SUBSET (0 .. n), NEW x \in T
      PROVE  g[T] = g[T \ {x}] + Power[x]
  <2>0. Power[x] \in Int /\ T \ {x} \in SUBSET (0 .. n)
    BY PowersAre
  <2>1. CASE x = n
    BY <2>0, <2>1
  <2>2. CASE x # n /\ n \in T
    <3> DEFINE U == T \ {n}
    <3>1. U \in SUBSET (0 .. n - 1) /\ x \in U
      BY <1>2, <2>2
    <3>2. f[U] = f[U \ {x}] + Power[x]
      BY <3>1 DEF Adds
    <3>3. U \ {x} = (T \ {x}) \ {n} /\ n \in T \ {x} /\ U \ {x} \in SUBSET (0 .. n - 1)
      BY <2>2, <3>1
    <3>4. g[T] = f[U] + Power[n] /\ g[T \ {x}] = f[U \ {x}] + Power[n]
      BY <2>0, <2>2, <3>3
    <3>5. f[U \ {x}] \in Int
      BY <1>3, <3>3
    <3> HIDE DEF g, U
    <3> QED BY <1>4, <2>0, <3>2, <3>4, <3>5
  <2>3. CASE n \notin T
    <3>1. T \in SUBSET (0 .. n - 1) /\ n \notin T \ {x}
      BY <1>2, <2>3
    <3>2. f[T] = f[T \ {x}] + Power[x]
      BY <3>1 DEF Adds
    <3>3. g[T] = f[T] /\ g[T \ {x}] = f[T \ {x}]
      BY <2>0, <2>3, <3>1
    <3> HIDE DEF g
    <3> QED BY <3>2, <3>3
  <2> QED BY <2>1, <2>2, <2>3
<1> HIDE DEF g
<1>8. Adds(g, n + 1)
  BY <1>1, <1>5, <1>6, <1>7 DEF Adds
<1> QED BY <1>8 DEF g

\* There are such sums for any number of bits.
LEMMA AddsTo ==
  ASSUME NEW n \in Nat
  PROVE  \E f : Adds(f, n)
<1> DEFINE Upto == {k \in Nat : \E f : Adds(f, k)}
<1>1. 0 \in Upto
  <2> DEFINE f == [T \in SUBSET (0 .. 0 - 1) |-> 0]
  <2>1. 0 .. 0 - 1 = {}
    OBVIOUS
  <2>2. Adds(f, 0)
    BY <2>1 DEF Adds
  <2> HIDE DEF f
  <2> QED BY <2>2
<1>2. ASSUME NEW k \in Nat, k \in Upto PROVE k + 1 \in Upto
  <2>1. PICK f : Adds(f, k)
    BY <1>2
  <2>2. \E g : Adds(g, k + 1)
    BY <2>1, AddsNext
  <2> QED BY <2>2
<1> HIDE DEF Upto
<1>3. n \in Upto
  BY <1>1, <1>2, Induction
<1> QED BY <1>3 DEF Upto

\* FromBits adds the powers of its bits.
LEMMA FromBitsIs ==
  ASSUME NEW n \in Nat, NEW f, Adds(f, n), NEW S \in SUBSET (0 .. n - 1)
  PROVE  FromBits(S) = f[S]
<1> DEFINE One(s) == CHOOSE x \in s : TRUE
           Iter(h) == [s \in SUBSET S |-> IF s = {} THEN 0 ELSE h[s \ {One(s)}] + Power[One(s)]]
           iter == CHOOSE h : h = Iter(h)
           g == [s \in SUBSET S |-> f[s]]
<1>1. FromBits(S) = iter[S]
  BY ZenonT(60) DEF FromBits, FoldSet, MapThenFoldSet
<1>2. \A s \in SUBSET S : s # {} => One(s) \in s
  OBVIOUS
<1> HIDE DEF One
<1>3. g = Iter(g)
  <2>1. ASSUME NEW s \in SUBSET S
        PROVE  g[s] = IF s = {} THEN 0 ELSE g[s \ {One(s)}] + Power[One(s)]
    <3>1. CASE s = {}
      BY <3>1 DEF Adds
    <3>2. CASE s # {}
      <4>1. One(s) \in s /\ s \in SUBSET (0 .. n - 1) /\ s \ {One(s)} \in SUBSET S
        BY <1>2, <3>2
      <4>2. f[s] = f[s \ {One(s)}] + Power[One(s)]
        BY <4>1 DEF Adds
      <4> QED BY <3>2, <4>1, <4>2
    <3> QED BY <3>1, <3>2
  <2> HIDE DEF g
  <2>2. \A s \in SUBSET S : g[s] = Iter(g)[s]
    BY <2>1
  <2>3. g = [s \in SUBSET S |-> g[s]]
    BY DEF g
  <2> QED BY <2>2, <2>3
<1>4. iter = Iter(iter)
  <2> HIDE DEF g, Iter
  <2> QED BY <1>3
<1> HIDE DEF iter
<1>5. \A s \in SUBSET S : iter[s] = IF s = {} THEN 0 ELSE iter[s \ {One(s)}] + Power[One(s)]
  BY <1>4
<1>6. IsFiniteSet(S)
  <2>1. IsFiniteSet(0 .. n - 1)
    BY FS_Interval
  <2> QED BY <2>1, FS_Subset
<1> DEFINE Upto == {k \in Nat : \A s \in SUBSET S : Cardinality(s) = k => iter[s] = f[s]}
<1>7. 0 \in Upto
  <2> SUFFICES ASSUME NEW s \in SUBSET S, Cardinality(s) = 0 PROVE iter[s] = f[s]
    OBVIOUS
  <2>1. s = {}
    BY <1>6, FS_Subset, FS_EmptySet
  <2> QED BY <1>5, <2>1 DEF Adds
<1>8. ASSUME NEW k \in Nat, k \in Upto PROVE k + 1 \in Upto
  <2> SUFFICES ASSUME NEW s \in SUBSET S, Cardinality(s) = k + 1 PROVE iter[s] = f[s]
    OBVIOUS
  <2>1. IsFiniteSet(s)
    BY <1>6, FS_Subset
  <2>2. s # {}
    BY FS_EmptySet
  <2> DEFINE x == One(s)  r == s \ {x}
  <2>3. x \in s /\ r \in SUBSET S /\ s \in SUBSET (0 .. n - 1)
    BY <1>2, <2>2
  <2>4. Cardinality(r) = k
    BY <2>1, <2>3, FS_RemoveElement
  <2>5. iter[r] = f[r]
    BY <1>8, <2>3, <2>4
  <2>6. iter[s] = iter[r] + Power[x]
    BY <1>5, <2>2
  <2>7. f[s] = f[r] + Power[x]
    BY <2>3 DEF Adds
  <2> HIDE DEF x, r
  <2> QED BY <2>5, <2>6, <2>7
<1> HIDE DEF Upto
<1>9. \A k \in Nat : k \in Upto
  BY <1>7, <1>8, Induction
<1>10. Cardinality(S) \in Nat
  BY <1>6, FS_CardinalityType
<1> QED BY <1>1, <1>9, <1>10 DEF Upto

\* The bits of a number below n.
BitsBelow(raw, n) == {i \in 0 .. n - 1 : Bit(raw, i)}

\* A number is its bits below n and what lies above them.
LEMMA BitsAdd ==
  ASSUME NEW n \in Nat, NEW raw \in Int
  PROVE  FromBits(BitsBelow(raw, n)) = raw - Power[n] * (raw \div Power[n])
<1>1. PICK f : Adds(f, n)
  BY AddsTo
<1> DEFINE Low(k) == f[BitsBelow(raw, k)]
           Upto == {k \in Nat : k <= n => Low(k) = raw - Power[k] * (raw \div Power[k])}
<1>2. 0 \in Upto
  <2>1. BitsBelow(raw, 0) = {}
    BY DEF BitsBelow
  <2>2. Power[0] = 1
    BY PowersAre
  <2>3. Low(0) = 0
    BY <1>1, <2>1 DEF Adds
  <2> QED BY <2>2, <2>3
<1>3. ASSUME NEW k \in Nat, k \in Upto PROVE k + 1 \in Upto
  <2> SUFFICES ASSUME k + 1 <= n
               PROVE  Low(k + 1) = raw - Power[k + 1] * (raw \div Power[k + 1])
    OBVIOUS
  <2> DEFINE B == BitsBelow(raw, k)  C == BitsBelow(raw, k + 1)
             p == Power[k]  q == raw \div p  h == q \div 2  b == q % 2
  <2>1. p \in Nat \ {0} /\ Power[k + 1] = 2 * p /\ Power[k + 1] = p * 2
    BY PowersAre
  <2>2. q \in Int
    BY <2>1, DivMod
  <2>3. h \in Int /\ b \in 0 .. 1 /\ q = 2 * h + b
    BY <2>2, DivMod
  <2>4. raw \div Power[k + 1] = h
    <3>1. raw \div (p * 2) = (raw \div p) \div 2
      BY <2>1, DivDiv
    <3> QED BY <2>1, <3>1
  <2>5. Low(k) = raw - p * q /\ B \in SUBSET (0 .. n - 1) /\ C \in SUBSET (0 .. n - 1)
    BY <1>3 DEF BitsBelow
  <2>6. Bit(raw, k) <=> b = 1
    BY DEF Bit
  <2>7. CASE b = 1
    <3>1. k \in C /\ C \ {k} = B
      BY <2>6, <2>7 DEF BitsBelow
    <3>2. f[C] = f[B] + p
      BY <1>1, <2>5, <3>1 DEF Adds
    <3>3. f[C] = raw - p * q + p
      BY <2>5, <3>2
    <3> HIDE DEF p, q, h, b, B, C
    <3>4. p * q = (2 * p) * h + p
      BY <2>1, <2>2, <2>3, <2>7
    <3>5. raw - p * q + p = raw - (2 * p) * h
      BY <2>1, <2>2, <2>3, <3>4
    <3>6. f[C] = raw - (2 * p) * h
      BY <3>3, <3>5
    <3> QED BY <2>1, <2>4, <3>6 DEF C
  <2>8. CASE b # 1
    <3>1. C = B
      BY <2>6, <2>8 DEF BitsBelow
    <3>2. f[C] = raw - p * q
      BY <2>5, <3>1
    <3> HIDE DEF p, q, h, b, B, C
    <3>4. p * q = (2 * p) * h
      BY <2>1, <2>2, <2>3, <2>8
    <3> QED BY <2>1, <2>4, <3>2, <3>4 DEF C
  <2> QED BY <2>7, <2>8
<1> HIDE DEF Upto
<1>4. n \in Upto
  BY <1>2, <1>3, Induction
<1>5. FromBits(BitsBelow(raw, n)) = Low(n)
  BY <1>1, FromBitsIs DEF BitsBelow
<1> QED BY <1>4, <1>5 DEF Upto

\* No bits are nought.
LEMMA NoBits == FromBits({}) = 0
<1>1. PICK f : Adds(f, 0)
  BY AddsTo
<1>2. FromBits({}) = f[{}]
  BY <1>1, FromBitsIs
<1> QED BY <1>1, <1>2 DEF Adds

\* A number that fits comes back from its bits.
LEMMA BitsComeBack ==
  ASSUME NEW s, SignalOk(s), NEW raw \in Int, FitsBits(raw, s)
  PROVE  SignExtend(FromBits(BitsBelow(raw, s.length)), s) = raw
<1> DEFINE n == s.length  p == Power[n - 1]  q == Power[n]  h == raw \div q
           low == FromBits(BitsBelow(raw, n))
<1>1. n \in Nat /\ n - 1 \in Nat /\ (n - 1) + 1 = n
  BY DEF SignalOk
<1>2. p \in Nat \ {0} /\ q = 2 * p
  BY <1>1, PowersAre
<1>3. low = raw - q * h
  BY <1>1, BitsAdd
<1>4. s.signed \in BOOLEAN
  BY DEF SignalOk
<1>5. /\ s.signed => -p <= raw /\ raw <= p - 1
      /\ ~s.signed => 0 <= raw /\ raw <= q - 1
  BY <1>4 DEF FitsBits
<1>6. SignExtend(low, s) = IF s.signed /\ low >= p THEN low - q ELSE low
  BY DEF SignExtend
<1>7. CASE 0 <= raw
  <2>1. raw < q /\ (s.signed => raw < p)
    <3> HIDE DEF p, q
    <3> QED BY <1>2, <1>4, <1>5
  <2>2. h = 0
    <3> HIDE DEF p, q
    <3>1. q \in Nat \ {0} /\ raw = q * 0 + raw
      BY <1>2
    <3> QED BY <1>7, <2>1, <3>1, DivUnique
  <2> HIDE DEF low, p, q, h
  <2>3. low = raw
    BY <1>2, <1>3, <2>2
  <2> QED BY <1>2, <1>6, <2>1, <2>3 DEF low
<1>8. CASE raw < 0
  <2>1. s.signed /\ -p <= raw
    <3> HIDE DEF p, q
    <3> QED BY <1>2, <1>4, <1>5, <1>8
  <2>2. h = -1
    <3> HIDE DEF p, q
    <3>1. q \in Nat \ {0} /\ raw = q * (-1) + (raw + q) /\ 0 <= raw + q /\ raw + q < q /\ raw + q \in Int
      BY <1>2, <1>8, <2>1
    <3> QED BY <3>1, DivUnique
  <2> HIDE DEF low, p, q, h
  <2>3. low = raw + q /\ low >= p
    BY <1>2, <1>3, <2>1, <2>2
  <2> QED BY <1>2, <1>6, <2>1, <2>3 DEF low
<1> QED BY <1>7, <1>8

-----------------------------------------------------------------------------
(* Where a signal's bits are, for the codec and for a receiver.            *)

\* No two bits of a signal have one place.
LEMMA PlacesDiffer ==
  ASSUME NEW s, SignalOk(s), NEW i \in 0 .. s.length - 1, NEW j \in 0 .. s.length - 1,
         Positions(s)[i] = Positions(s)[j]
  PROVE  i = j
<1>1. /\ Positions(s)[i][1] = Flat(s, i) \div 8 /\ Positions(s)[i][2] = Flat(s, i) % 8
      /\ Positions(s)[j][1] = Flat(s, j) \div 8 /\ Positions(s)[j][2] = Flat(s, j) % 8
  BY PlaceIs
<1>2. Flat(s, i) \div 8 = Flat(s, j) \div 8 /\ Flat(s, i) % 8 = Flat(s, j) % 8
  BY <1>1
<1>3. Flat(s, i) \in Nat /\ Flat(s, j) \in Nat /\ Linear(s, i) \in Nat /\ Linear(s, j) \in Nat
  BY FlatIs
<1>4. \A a, b \in Nat : a \div 8 = b \div 8 /\ a % 8 = b % 8 => a = b
  OBVIOUS
<1>5. s.start \in Nat /\ s.length \in Nat /\ s.start \div 8 \in Nat /\ s.start % 8 \in Nat
  BY DEF SignalOk
<1>6. CASE s.order = "intel"
  BY <1>2, <1>3, <1>4, <1>5, <1>6 DEF Flat
<1>7. CASE s.order # "intel"
  <2>1. /\ Flat(s, i) \div 8 = Linear(s, i) \div 8 /\ Flat(s, i) % 8 = 7 - (Linear(s, i) % 8)
        /\ Flat(s, j) \div 8 = Linear(s, j) \div 8 /\ Flat(s, j) % 8 = 7 - (Linear(s, j) % 8)
    BY <1>7, FlatIs
  <2>2. Linear(s, i) \div 8 = Linear(s, j) \div 8
    BY <1>2, <2>1
  <2>3. Linear(s, i) % 8 = Linear(s, j) % 8
    <3>1. \A a, b \in Nat : 7 - (a % 8) = 7 - (b % 8) => a % 8 = b % 8
      OBVIOUS
    <3> QED BY <1>2, <1>3, <2>1, <3>1
  <2>4. Linear(s, i) = Linear(s, j)
    BY <1>3, <1>4, <2>2, <2>3
  <2> DEFINE q == s.start \div 8  r == s.start % 8  n == s.length
  <2>5. 8 * q + 7 - r + n - 1 - i = 8 * q + 7 - r + n - 1 - j
    BY <2>4 DEF Linear
  <2>6. q \in Nat /\ r \in Nat /\ n \in Nat
    BY <1>5
  <2> HIDE DEF q, r, n
  <2>7. i \in Int /\ j \in Int
    OBVIOUS
  <2> QED BY <2>5, <2>6, <2>7
<1> QED BY <1>6, <1>7

\* Bit i of the signal is set in the data.
OnWire(data, s, i) == Positions(s)[i][2] \in data[Positions(s)[i][1] + 1]
Ones(data, s) == {i \in 0 .. s.length - 1 : OnWire(data, s, i)}

\* A receiver sees a bit where the codec has it.
LEMMA ReceiverSees ==
  ASSUME NEW s, SignalOk(s), NEW data, NEW i \in 0 .. s.length - 1
  PROVE  BitAt(data, s, i) <=> OnWire(data, s, i)
<1>1. /\ Positions(s)[i][1] = Flat(s, i) \div 8 /\ Positions(s)[i][2] = Flat(s, i) % 8
  BY PlaceIs
<1>2. CASE s.order = "intel"
  BY <1>1, <1>2 DEF BitAt, OnWire, Flat
<1>3. CASE s.order # "intel"
  <2>1. Flat(s, i) \div 8 = Linear(s, i) \div 8 /\ Flat(s, i) % 8 = 7 - (Linear(s, i) % 8)
    BY <1>3, FlatIs
  <2>2. BitAt(data, s, i) <=> 7 - (Linear(s, i) % 8) \in data[Linear(s, i) \div 8 + 1]
    BY <1>3 DEF BitAt, Linear
  <2> QED BY <1>1, <2>1, <2>2 DEF OnWire
<1> QED BY <1>2, <1>3

\* A receiver and the codec read one number.
LEMMA ReceiverReads ==
  ASSUME NEW s, SignalOk(s), NEW data
  PROVE  /\ FromBits(Ones(data, s)) \in Int
         /\ SignExtend(FromBits(Ones(data, s)), s) \in Int
         /\ Received(data, s) = RawToPhysical(s, SignExtend(FromBits(Ones(data, s)), s))
<1> DEFINE n == s.length  raw == FromBits(Ones(data, s))  p == Power[n - 1]
           x == SignExtend(raw, s)
<1>1. /\ n \in Nat /\ n - 1 \in Nat /\ (n - 1) + 1 = n /\ s.signed \in BOOLEAN
      /\ s.factor \in Int /\ s.offset \in Int
  BY DEF SignalOk
<1>2. p \in Nat \ {0} /\ Power[n] = 2 * p
  BY <1>1, PowersAre
<1>3. raw \in Int
  <2>1. PICK f : Adds(f, n)
    BY <1>1, AddsTo
  <2>2. Ones(data, s) \in SUBSET (0 .. n - 1)
    BY DEF Ones
  <2>3. FromBits(Ones(data, s)) = f[Ones(data, s)]
    BY <1>1, <2>1, <2>2, FromBitsIs
  <2>4. f[Ones(data, s)] \in Int
    BY <2>1, <2>2 DEF Adds
  <2> QED BY <2>3, <2>4
<1>4. {i \in 0 .. s.length - 1 : BitAt(data, s, i)} = Ones(data, s)
  BY ReceiverSees DEF Ones
<1>5. Received(data, s)
        = s.factor * (IF s.signed /\ raw >= p THEN raw - 2 * p ELSE raw) + s.offset
  <2> DEFINE C(i) == BitAt(data, s, i)
  <2>1. FromBits({i \in 0 .. s.length - 1 : C(i)}) = raw
    BY <1>4
  <2> QED BY <2>1, Zenon DEF Received
<1>6. x = IF s.signed /\ raw >= p THEN raw - 2 * p ELSE raw
  BY <1>2 DEF SignExtend
<1> HIDE DEF raw, p
<1>7. x \in Int
  BY <1>2, <1>3, <1>6
<1> HIDE DEF x
<1>8. s.factor * x = x * s.factor
  BY <1>1, <1>7
<1> QED BY <1>3, <1>5, <1>6, <1>7, <1>8 DEF raw, x, RawToPhysical

\* Of a sound message's signals a name finds its own.
LEMMA NamesOwn ==
  ASSUME NEW m, MessageOk(m), Sound(m), NEW k \in 1 .. Len(m.signals)
  PROVE  /\ Defines(m, m.signals[k].name) /\ m.signals[k] \in Range(m.signals)
         /\ SignalOf(m, m.signals[k].name) = m.signals[k]
         /\ SignalOk(m.signals[k])
<1> DEFINE s == m.signals[k]
<1>1. s \in Range(m.signals) /\ DOMAIN m.signals = 1 .. Len(m.signals) /\ SignalOk(s)
  BY SignalsAre
<1>2. Defines(m, s.name)
  BY <1>1 DEF Defines
<1>3. PICK i \in 1 .. Len(m.signals) :
        SignalOf(m, s.name) = m.signals[i] /\ m.signals[i].name = s.name
  BY <1>2, SignalIs
<1>4. i = k
  BY <1>1, <1>3 DEF Sound
<1> QED BY <1>1, <1>2, <1>3, <1>4

\* Decoding a signal of a sound message is what a receiver reads.
LEMMA DecodeGives ==
  ASSUME NEW m, MessageOk(m), Sound(m), NEW k \in 1 .. Len(m.signals),
         NEW data \in Written(m)
  PROVE  /\ DecodeSignal(m, data, m.signals[k].name) = Done(Received(data, m.signals[k]))
         /\ Received(data, m.signals[k])
              = RawToPhysical(m.signals[k], SignExtend(FromBits(Ones(data, m.signals[k])), m.signals[k]))
<1> DEFINE s == m.signals[k]
           x == SignExtend(FromBits(Ones(data, s)), s)
           Physical1(signal) ==
             LET raw == ReadSignal(signal, data)
             IN  IF raw.result # "ok" THEN raw ELSE Done(RawToPhysical(signal, raw.value))
<1>1. /\ Defines(m, s.name) /\ s \in Range(m.signals)
      /\ SignalOf(m, s.name) = s /\ SignalOk(s)
  BY NamesOwn
<1>2. SizeOf(m) \in 1 .. 8 /\ ~LastOutside(s, SizeOf(m)) /\ ~SomeOutside(s, SizeOf(m))
  BY <1>1, SoundWrites
<1>3. Len(data) = SizeOf(m)
  BY <1>2, LenIs DEF Written
<1>4. ReadSignal(s, data) = Done(x)
  <2>1. DOMAIN Positions(s) = 0 .. s.length - 1
    BY PlacesAre
  <2>2. {i \in DOMAIN Positions(s) :
           Positions(s)[i][2] \in data[Positions(s)[i][1] + 1]} = Ones(data, s)
    BY <2>1 DEF Ones, OnWire
  <2>3. ~LastOutside(s, Len(data)) /\ ~SomeOutside(s, Len(data))
    BY <1>2, <1>3
  <2> HIDE DEF s
  <2> QED BY <2>2, <2>3, Zenon DEF ReadSignal
<1>5. Physical1(s) = Done(RawToPhysical(s, x))
  BY <1>4 DEF Done
<1>6. DecodeSignal(m, data, s.name) = [signal \in Range(m.signals) |-> Physical1(signal)][SignalOf(m, s.name)]
  BY <1>1 DEF DecodeSignal
<1>7. DecodeSignal(m, data, s.name) = Physical1(s)
  <2> HIDE DEF Physical1
  <2> QED BY <1>1, <1>6
<1>8. Received(data, s) = RawToPhysical(s, x)
  BY <1>1, ReceiverReads
<1> QED BY <1>5, <1>7, <1>8

\* Writing a signal of a sound message sets its own bits to those of its number and
\* leaves those of the others as they are.
LEMMA WriteSets ==
  ASSUME NEW m, MessageOk(m), Sound(m),
         NEW k \in 1 .. Len(m.signals), NEW j \in 1 .. Len(m.signals),
         NEW raw, NEW d \in Written(m), NEW i \in 0 .. m.signals[j].length - 1
  PROVE  LET w == WriteSignal(m.signals[k], raw, d).value
         IN  /\ j = k => (OnWire(w, m.signals[j], i) <=> Bit(raw, i))
             /\ j # k => (OnWire(w, m.signals[j], i) <=> OnWire(d, m.signals[j], i))
<1> DEFINE s == m.signals[k]  t == m.signals[j]  p == Positions(s)
           In(b) == {h \in DOMAIN p : p[h][1] = b - 1}
           v == [b \in DOMAIN d |->
                   (d[b] \ {p[h][2] : h \in In(b)})
                   \cup {p[h][2] : h \in {l \in In(b) : Bit(raw, l)}}]
           x == Positions(t)[i]
           b0 == x[1] + 1
<1>1. s \in Range(m.signals) /\ t \in Range(m.signals) /\ SignalOk(s) /\ SignalOk(t)
  BY NamesOwn
<1>2. SizeOf(m) \in 1 .. 8 /\ ~LastOutside(s, SizeOf(m)) /\ ~SomeOutside(s, SizeOf(m))
  BY <1>1, SoundWrites
<1>3. Len(d) = SizeOf(m) /\ DOMAIN d = 1 .. SizeOf(m)
  BY <1>2, LenIs DEF Written
<1>4. WriteSignal(s, raw, d).value = v
  <2>1. ~LastOutside(s, Len(d)) /\ ~SomeOutside(s, Len(d))
    BY <1>2, <1>3
  <2>2. WriteSignal(s, raw, d) = Done(v)
    <3> HIDE DEF s
    <3> QED BY <2>1, Zenon DEF WriteSignal
  <2> HIDE DEF v
  <2> QED BY <2>2 DEF Done
<1>5. b0 \in DOMAIN d /\ b0 - 1 = x[1]
  <2>1. x[1] \in Nat /\ x[1] < SizeOf(m)
    BY <1>1, SoundWrites, PlaceIs
  <2> HIDE DEF x
  <2> QED BY <1>2, <1>3, <2>1
<1>6. DOMAIN p = 0 .. s.length - 1
  BY PlacesAre
<1>7. \A h \in DOMAIN p : p[h] = <<p[h][1], p[h][2]>>
  <2> SUFFICES ASSUME NEW h \in 0 .. s.length - 1 PROVE p[h] = <<p[h][1], p[h][2]>>
    BY <1>6
  <2>1. p[h] = <<Flat(s, h) \div 8, Flat(s, h) % 8>>
    BY <1>1, PlaceIs
  <2> HIDE DEF p
  <2> QED BY <2>1
<1>8. x = <<x[1], x[2]>>
  <2>1. x = <<Flat(t, i) \div 8, Flat(t, i) % 8>>
    BY <1>1, PlaceIs
  <2> HIDE DEF x
  <2> QED BY <2>1
<1>9. OnWire(v, t, i) <=> \/ OnWire(d, t, i) /\ ~ \E h \in DOMAIN p : p[h] = x
                          \/ \E h \in DOMAIN p : p[h] = x /\ Bit(raw, h)
  <2> DEFINE y == x[2]
  <2>1. OnWire(v, t, i) <=> y \in v[b0]
    BY DEF OnWire
  <2>2. OnWire(d, t, i) <=> y \in d[b0]
    BY DEF OnWire
  <2>3. v[b0] = (d[b0] \ {p[h][2] : h \in In(b0)})
                \cup {p[h][2] : h \in {l \in In(b0) : Bit(raw, l)}}
    <3> HIDE DEF b0, In
    <3> QED BY <1>5
  <2>4. \A h \in DOMAIN p : h \in In(b0) /\ p[h][2] = y <=> p[h] = x
    <3> SUFFICES ASSUME NEW h \in DOMAIN p PROVE p[h][1] = x[1] /\ p[h][2] = x[2] <=> p[h] = x
      BY <1>5
    <3> HIDE DEF p, x
    <3> QED BY <1>7, <1>8
  <2>5. \A h : h \in In(b0) => h \in DOMAIN p
    OBVIOUS
  <2> HIDE DEF v, b0, y, x, In, p
  <2> QED BY <2>1, <2>2, <2>3, <2>4, <2>5
<1>10. ASSUME j = k PROVE OnWire(v, t, i) <=> Bit(raw, i)
  <2>1. i \in DOMAIN p /\ p[i] = x /\ s = t
    BY <1>6, <1>10
  <2>2. \A h \in DOMAIN p : p[h] = x => h = i
    <3> SUFFICES ASSUME NEW h \in 0 .. t.length - 1, Positions(t)[h] = Positions(t)[i] PROVE h = i
      BY <1>6, <2>1
    <3>1. i \in 0 .. t.length - 1
      OBVIOUS
    <3> HIDE DEF t
    <3> QED BY <1>1, <3>1, PlacesDiffer
  <2> HIDE DEF v, p, x, t, s
  <2> QED BY <1>9, <2>1, <2>2
<1>11. ASSUME j # k PROVE OnWire(v, t, i) <=> OnWire(d, t, i)
  <2>1. DOMAIN m.signals = 1 .. Len(m.signals)
    BY SignalsAre
  <2>2. Range(Positions(s)) \cap Range(Positions(t)) = {}
    BY <1>11, <2>1 DEF Sound
  <2>3. x \in Range(Positions(t))
    BY PlacesAre DEF Range
  <2>4. \A h \in DOMAIN p : p[h] \in Range(Positions(s))
    BY DEF Range
  <2>5. ~ \E h \in DOMAIN p : p[h] = x
    <3> HIDE DEF p, x, s, t
    <3> QED BY <2>2, <2>3, <2>4
  <2> HIDE DEF v, p, x, t
  <2> QED BY <1>9, <2>5
<1> HIDE DEF v
<1> QED BY <1>4, <1>10, <1>11

\* The raw number given for a signal.
RawGiven(m, given, s) == RawFor(m, s.name, given[s.name]).value

\* Behind the first k signals their bits are those of the numbers given for them and
\* the bits of the others are not set.
BitsSet(m, given, data, k) ==
  \A j \in 1 .. Len(m.signals) :
    LET s == m.signals[j]
    IN  \A i \in 0 .. s.length - 1 :
          OnWire(data, s, i) <=>
            j <= k /\ s.name \in Resolved(m, given) /\ Bit(RawGiven(m, given, s), i)

\* In blank data no bit is set.
LEMMA BlankBits ==
  ASSUME NEW m, MessageOk(m), Sound(m), NEW given
  PROVE  BitsSet(m, given, Blank(m), 0)
<1> SUFFICES ASSUME NEW j \in 1 .. Len(m.signals), NEW i \in 0 .. m.signals[j].length - 1
             PROVE  ~OnWire(Blank(m), m.signals[j], i) /\ ~(j <= 0)
  BY Zenon DEF BitsSet
<1> DEFINE x == Positions(m.signals[j])[i]
<1>1. m.signals[j] \in Range(m.signals) /\ SignalOk(m.signals[j])
  BY NamesOwn
<1>2. x[1] \in Nat /\ x[1] < SizeOf(m) /\ SizeOf(m) \in 1 .. 8
  BY <1>1, SoundWrites, PlaceIs
<1>3. x[1] + 1 \in 1 .. SizeOf(m)
  <2> HIDE DEF x
  <2> QED BY <1>2
<1>4. Blank(m)[x[1] + 1] = {}
  <2> HIDE DEF x
  <2> QED BY <1>3 DEF Blank
<1>5. j \in Nat /\ j # 0
  BY SignalsAre
<1> QED BY <1>4, <1>5 DEF OnWire

\* The next signal's bits are set, and no others.
LEMMA StepBits ==
  ASSUME NEW m, MessageOk(m), Sound(m), NEW given, NEW k \in Nat, k + 1 \in 1 .. Len(m.signals),
         NEW d, d.result = "ok", d.value \in Written(m), BitsSet(m, given, d.value, k)
  PROVE  BitsSet(m, given, Put1(m, given, d, m.signals[k + 1]).value, k + 1)
<1> DEFINE s == m.signals[k + 1]  e == Put1(m, given, d, s)  raw == RawGiven(m, given, s)
<1> SUFFICES ASSUME NEW j \in 1 .. Len(m.signals), NEW i \in 0 .. m.signals[j].length - 1
             PROVE  OnWire(e.value, m.signals[j], i) <=>
                      j <= k + 1 /\ m.signals[j].name \in Resolved(m, given)
                        /\ Bit(RawGiven(m, given, m.signals[j]), i)
  BY Zenon DEF BitsSet
<1>1. OnWire(d.value, m.signals[j], i) <=>
        j <= k /\ m.signals[j].name \in Resolved(m, given) /\ Bit(RawGiven(m, given, m.signals[j]), i)
  BY DEF BitsSet
<1>2. j \in Nat /\ (j <= k + 1 <=> j <= k \/ j = k + 1)
  BY SignalsAre
<1>3. CASE s.name \notin Resolved(m, given)
  <2>1. e = d
    BY <1>3 DEF Put1
  <2> HIDE DEF e
  <2> QED BY <1>1, <1>2, <1>3, <2>1
<1>4. CASE s.name \in Resolved(m, given)
  <2>1. e = WriteSignal(s, raw, d.value)
    BY <1>4 DEF Put1, RawGiven
  <2> DEFINE w == WriteSignal(m.signals[k + 1], raw, d.value).value
  <2>2. /\ j = k + 1 => (OnWire(w, m.signals[j], i) <=> Bit(raw, i))
        /\ j # k + 1 => (OnWire(w, m.signals[j], i) <=> OnWire(d.value, m.signals[j], i))
    <3> HIDE DEF raw
    <3> QED BY WriteSets
  <2>3. e.value = w
    BY <2>1
  <2>4. j = k + 1 => ~(j <= k)
    OBVIOUS
  <2> HIDE DEF e, w
  <2>5. CASE j = k + 1
    BY <1>2, <1>4, <2>2, <2>3, <2>5
  <2>6. CASE j # k + 1
    BY <1>1, <1>2, <2>2, <2>3, <2>6
  <2> QED BY <2>5, <2>6
<1> QED BY <1>3, <1>4

\* In encoded data every signal has the bits of its number.
LEMMA EncodedBits ==
  ASSUME NEW m, MessageOk(m), Sound(m), NEW given
  PROVE  BitsSet(m, given, EncodeSignals(m, given).value, Len(m.signals))
<1>1. PICK c : Steps(c, m, given) /\ EncodeSignals(m, given) = c[Len(m.signals)]
  BY EncodeSteps
<1> DEFINE n == Len(m.signals)
           Upto == {k \in Nat : k <= n => BitsSet(m, given, c[k].value, k)}
<1>2. n \in Nat
  BY SignalsAre
<1>3. 0 \in Upto
  <2>1. c[0].value = Blank(m)
    BY <1>1 DEF Steps, Done
  <2> QED BY <2>1, BlankBits
<1>4. ASSUME NEW k \in Nat, k \in Upto PROVE k + 1 \in Upto
  <2> SUFFICES ASSUME k + 1 <= n PROVE BitsSet(m, given, c[k + 1].value, k + 1)
    OBVIOUS
  <2>1. k + 1 \in 1 .. n /\ k \in 0 .. n /\ (k + 1) - 1 = k
    BY <1>2
  <2>2. BitsSet(m, given, c[k].value, k)
    BY <1>4, <2>1
  <2>3. c[k].result = "ok" /\ c[k].value \in Written(m)
    BY <1>1, <2>1, SoundSteps
  <2>4. c[k + 1] = Put1(m, given, c[k], m.signals[k + 1])
    BY <1>1, <2>1 DEF Steps
  <2> QED BY <2>1, <2>2, <2>3, <2>4, StepBits
<1> HIDE DEF Upto
<1>5. n \in Upto
  BY <1>2, <1>3, <1>4, Induction
<1> QED BY <1>1, <1>2, <1>5 DEF Upto

-----------------------------------------------------------------------------
(* What a frame shows.                                                     *)

\* The codec rounds to the nearest number, like the netmap's.
LEMMA NearestRaw ==
  ASSUME NEW a \in Int, NEW b \in Int, b # 0
  PROVE  Rounded(a, b) \in Int /\ 2 * Abs(Rounded(a, b) * b - a) <= Abs(b)
<1> DEFINE x == Rounded(a, b)
<1>1. Rounded(a, b) = Eth!Rounded(a, b)
  BY DEF Rounded, Eth!Rounded
<1>2. Near(x, a, b)
  BY <1>1, RoundedIs
<1> HIDE DEF x
<1>3. x \in Int /\ 2 * Eth!Distance(x * b, a) <= Eth!Distance(b, 0)
  BY <1>2 DEF Near
<1> DEFINE y == x * b
<1>4. y \in Int
  BY <1>3
<1>5. 2 * Abs(y - a) <= Abs(b)
  <2>1. 2 * Eth!Distance(y, a) <= Eth!Distance(b, 0)
    BY <1>3
  <2> HIDE DEF y
  <2> QED BY <1>4, <2>1 DEF Abs, Eth!Distance
<1> QED BY <1>3, <1>5 DEF x

\* The number a held value has in its signal.
LEMMA HeldRaw ==
  ASSUME NEW m, MessageOk(m), Sound(m), NEW k \in 1 .. Len(m.signals),
         NEW value, Holds(m, m.signals[k].name, value)
  PROVE  LET s == m.signals[k]
             raw == RawFor(m, s.name, value).value
         IN  /\ value \in Int /\ RawFor(m, s.name, value).result = "ok"
             /\ raw \in Int /\ FitsBits(raw, s)
             /\ 2 * Abs(RawToPhysical(s, raw) - value) <= Abs(s.factor)
<1> DEFINE s == m.signals[k]  r == RawFor(m, s.name, value)
           x == Rounded(value - s.offset, s.factor)
<1>1. value \in Int /\ Defines(m, s.name) /\ r.result = "ok"
  BY DEF Holds
<1>2. SignalOk(s) /\ SignalOf(m, s.name) = s
  BY NamesOwn
<1>3. r = PhysicalToRaw(s, value)
  BY <1>1, <1>2, RawForIs
<1>4. s.factor \in Int /\ s.offset \in Int
  BY <1>2 DEF SignalOk
<1> HIDE DEF s
<1>5. s.factor # 0 /\ FitsBits(x, s) /\ r = Done(x)
  <2>1. PhysicalToRaw(s, value) = IF s.factor = 0 THEN Err ELSE IF FitsBits(x, s) THEN Done(x) ELSE Err
    BY DEF PhysicalToRaw
  <2> HIDE DEF r, x
  <2>2. Err.result # "ok"
    BY DEF Err
  <2> QED BY <1>1, <1>3, <2>1, <2>2
<1>6. r.value = x
  <2> HIDE DEF r, x
  <2> QED BY <1>5 DEF Done
<1>7. x \in Int /\ 2 * Abs(x * s.factor - (value - s.offset)) <= Abs(s.factor)
  <2>1. value - s.offset \in Int
    BY <1>1, <1>4
  <2> QED BY <1>4, <1>5, <2>1, NearestRaw
<1> HIDE DEF x, r
<1>8. RawToPhysical(s, x) - value = x * s.factor - (value - s.offset)
  <2> DEFINE y == x * s.factor
  <2>1. y \in Int
    BY <1>4, <1>7
  <2>2. RawToPhysical(s, x) = y + s.offset
    BY DEF RawToPhysical
  <2> DEFINE z == RawToPhysical(s, x)
  <2> HIDE DEF y, z
  <2>3. z - value = y - (value - s.offset)
    BY <1>1, <1>4, <2>1, <2>2 DEF z
  <2> QED BY <2>3 DEF y, z
<1> QED BY <1>1, <1>5, <1>6, <1>7, <1>8 DEF s, r

\* What a signal's numbers are.
LEMMA SignalNumbers ==
  ASSUME NEW s, SignalOk(s)
  PROVE  s.length - 1 \in Nat /\ s.factor \in Int /\ s.offset \in Int
BY DEF SignalOk

\* A sound message's data shows every value a node holds, and the offset for a
\* signal it holds none for.
LEMMA EncodedShows ==
  ASSUME NEW m, MessageOk(m), Sound(m), NEW given,
         \A name \in DOMAIN given : Holds(m, name, given[name]),
         NEW k \in 1 .. Len(m.signals)
  PROVE  LET s == m.signals[k]
             data == EncodeSignals(m, given).value
             d == DecodeSignal(m, data, s.name)
         IN  /\ d = Done(Received(data, s))
             /\ IF s.name \in DOMAIN given
                THEN 2 * Abs(d.value - given[s.name]) <= Abs(s.factor)
                ELSE d.value = s.offset
<1> DEFINE s == m.signals[k]
           data == EncodeSignals(m, given).value
           d == DecodeSignal(m, data, s.name)
           x == SignExtend(FromBits(Ones(data, s)), s)
           raw == RawGiven(m, given, s)
<1>1. data \in Written(m)
  BY SoundEncodes
<1>2. d = Done(Received(data, s)) /\ Received(data, s) = RawToPhysical(s, x)
  <2> HIDE DEF data
  <2> QED BY <1>1, DecodeGives
<1>3. d.value = RawToPhysical(s, x)
  <2> HIDE DEF d, data, s, x
  <2> QED BY <1>2 DEF Done
<1>4. k \in Nat /\ k <= Len(m.signals)
  BY SignalsAre
<1>5. \A i \in 0 .. s.length - 1 :
        OnWire(data, s, i) <=> s.name \in Resolved(m, given) /\ Bit(raw, i)
  BY <1>4, EncodedBits, Zenon DEF BitsSet
<1>6. SignalOk(s) /\ Defines(m, s.name)
  BY NamesOwn
<1>7. CASE s.name \in DOMAIN given
  <2>1. Holds(m, s.name, given[s.name])
    BY <1>7
  <2> DEFINE value == given[s.name]
  <2>2. /\ value \in Int /\ RawFor(m, s.name, value).result = "ok"
        /\ raw \in Int /\ FitsBits(raw, s)
        /\ 2 * Abs(RawToPhysical(s, raw) - value) <= Abs(s.factor)
    BY <2>1, HeldRaw DEF RawGiven
  <2>3. s.name \in Resolved(m, given)
    BY <1>6, <1>7, <2>2 DEF Resolved
  <2>4. Ones(data, s) = BitsBelow(raw, s.length)
    <3> HIDE DEF data, s, raw
    <3> QED BY <1>5, <2>3 DEF Ones, BitsBelow
  <2>5. x = raw
    <3>1. SignExtend(FromBits(BitsBelow(raw, s.length)), s) = raw
      <4> HIDE DEF s, raw
      <4> QED BY <1>6, <2>2, BitsComeBack
    <3> HIDE DEF data, raw
    <3> QED BY <2>4, <3>1
  <2> HIDE DEF d, data, x, raw
  <2> QED BY <1>2, <1>3, <1>7, <2>2, <2>5 DEF d, data
<1>8. CASE s.name \notin DOMAIN given
  <2>1. s.name \notin Resolved(m, given)
    BY <1>8 DEF Resolved
  <2>2. Ones(data, s) = {}
    <3> HIDE DEF data, s, raw
    <3> QED BY <1>5, <2>1 DEF Ones
  <2>3. s.length - 1 \in Nat /\ s.factor \in Int /\ s.offset \in Int
    BY <1>6, SignalNumbers
  <2>4. x = 0
    <3> DEFINE p == Power[s.length - 1]
    <3>1. p \in Nat \ {0}
      BY <2>3, PowersAre
    <3>2. ~(0 >= p)
      <4> HIDE DEF p
      <4> QED BY <3>1
    <3>3. FromBits(Ones(data, s)) = 0
      BY <2>2, NoBits
    <3> QED BY <3>2, <3>3 DEF SignExtend
  <2>5. RawToPhysical(s, 0) = s.offset
    BY <2>3 DEF RawToPhysical
  <2> HIDE DEF d, data, x, s
  <2> QED BY <1>2, <1>3, <1>8, <2>4, <2>5 DEF d, data, s
<1> QED BY <1>7, <1>8

\* The frames of a tick show what their nodes hold.
LEMMA TickShows ==
  ASSUME CanState, Tick, NEW f \in frames'
  PROVE  Shows(f)'
<1>1. /\ frames' = {[ecu |-> i, data |-> Encoded(i).value] : i \in {j \in DOMAIN ecus : Transmits(j)}}
      /\ ecus' = ecus /\ values' = values
  BY DEF Tick
<1>2. PICK i \in {j \in DOMAIN ecus : Transmits(j)} : f = [ecu |-> i, data |-> Encoded(i).value]
  BY <1>1
<1>3. i \in DOMAIN ecus /\ IsConfig(i) /\ CanNode(i)
  BY <1>2, CanListsAre DEF Transmits, Due
<1> DEFINE m == ecus[i].message  given == values[i]
<1>4. MessageOk(m) /\ \A name \in DOMAIN given : Holds(m, name, given[name])
  BY <1>3 DEF CanNode
<1>5. f.ecu = i /\ f.data = EncodeSignals(m, given).value
  BY <1>2 DEF Encoded
<1>6. Shows(f)
  <2> SUFFICES ASSUME Sound(m), NEW s \in Range(m.signals)
               PROVE  LET d == DecodeSignal(m, f.data, s.name)
                      IN  /\ d = Done(Received(f.data, s))
                          /\ IF s.name \in DOMAIN given
                             THEN 2 * Abs(d.value - given[s.name]) <= Abs(s.factor)
                             ELSE d.value = s.offset
    BY <1>5, Zenon DEF Shows
  <2> HIDE DEF m, given
  <2>1. PICK k \in 1 .. Len(m.signals) : s = m.signals[k]
    BY <1>4, SignalsAre
  <2> QED BY <1>4, <1>5, <2>1, EncodedShows
<1>7. Shows(f)' <=> Shows(f)
  BY <1>1 DEF Shows
<1> QED BY <1>6, <1>7

\* Every frame a tick sends reads, by a receiver and by the codec, within half a
\* resolution step of what was set last, and as the offset where nothing was set,
\* for all the signals of a sound message (embrig-dbc's codec.rs, embrig-models'
\* config.rs).
THEOREM FramesTell == VehiclesSpec => FramesShowValues
<1> DEFINE Tell == time' # time => \A f \in frames' : Shows(f)'
<1>1. CanInv /\ [CanNext \/ EthNext]_both => [Tell]_vars
  <2> SUFFICES ASSUME CanInv, [CanNext \/ EthNext]_both, time' # time PROVE Tell
    OBVIOUS
  <2>1. CanNext
    BY DEF both, vars, nodeVars, EthNext
  <2>2. CanState /\ Tick
    BY <2>1, OthersWait DEF CanNext, CanInv
  <2> QED BY <2>2, TickShows
<1> QED BY <1>1, CanInvariant, PTL DEF VehiclesSpec, FramesShowValues
===============================================================================
