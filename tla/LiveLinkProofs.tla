--------------------------- MODULE LiveLinkProofs --------------------------
(***************************************************************************)
(* The three targets on a live link, for every step, period, poll and wait,*)
(* any number of messages, and however long the host is held up.           *)
(* The rest-bus target's node keeps the pace of the bus, and its recorder's*)
(* newest frame is the newest as soon as the echo has been read.  On the   *)
(* hardware targets no message is lost or doubled, and each has its turn.  *)
(***************************************************************************)
EXTENDS MCLiveLink, SequenceTheorems, FiniteSetTheorems, TLAPS

-----------------------------------------------------------------------------
(* The invariant of the rest-bus target.                                   *)

Frames == [src : {"node", "device"}, n : Nat]
Wires == [frame : Frames, at : Nat]

Types ==
  /\ now \in Nat /\ goal \in Nat /\ sim \in Nat /\ next \in Nat /\ sent \in Nat
  /\ device \in Nat /\ latest \in Nat
  /\ pc \in {"idle", "loop", "recv", "sync", "run", "send"}
  /\ emitted \in Seq(Frames) /\ socket \in Seq(Frames) /\ wire \in Seq(Wires)

\* The simulation keeps behind the bus, and the node's frames behind their time.
Behind ==
  /\ goal <= now
  /\ sim < now + StepUs
  /\ sent * Period <= next
  /\ \A i \in DOMAIN emitted :
       emitted[i].src = "node" /\ (emitted[i].n - 1) * Period < now
  /\ \A i \in DOMAIN wire :
       wire[i].frame.src = "node" => (wire[i].frame.n - 1) * Period < wire[i].at

\* With whole steps in a period, a frame is emitted in the step in which it is due.
Exact ==
  Period % StepUs = 0 =>
    /\ \E k \in Nat : sim = k * StepUs
    /\ \E q \in Nat : next = q * StepUs
    /\ next = sent * Period
    /\ sim <= next
    /\ next < sim + Period

\* The newest frame is behind every older one, or has been recorded.
Newest == [src |-> "node", n |-> sent]
Drained ==
  /\ emitted # <<>> => pc \in {"run", "send"} /\ emitted[Len(emitted)] = Newest
  /\ \A i \in DOMAIN socket :
       socket[i].src = "node" =>
         emitted # <<>> \/ \E j \in i .. Len(socket) : socket[j] = Newest
  /\ (emitted = <<>> /\ \A i \in DOMAIN socket : socket[i].src # "node") => latest = sent

-----------------------------------------------------------------------------
(* Sequences and whole periods.                                            *)

LEMMA FrontFacts ==
  ASSUME NEW S, NEW s \in Seq(S), s # <<>>
  PROVE  /\ Len(s) \in Nat \ {0} /\ Head(s) = s[1] /\ Head(s) \in S
         /\ Tail(s) \in Seq(S) /\ Len(Tail(s)) = Len(s) - 1
         /\ DOMAIN s = 1 .. Len(s) /\ DOMAIN Tail(s) = 1 .. Len(s) - 1
         /\ \A i \in 1 .. Len(s) - 1 : Tail(s)[i] = s[i + 1]
BY HeadTailProperties

LEMMA BackFacts ==
  ASSUME NEW S, NEW s \in Seq(S), NEW e \in S
  PROVE  /\ Append(s, e) \in Seq(S) /\ Append(s, e) # <<>> /\ Len(s) \in Nat
         /\ Len(Append(s, e)) = Len(s) + 1
         /\ DOMAIN s = 1 .. Len(s) /\ DOMAIN Append(s, e) = 1 .. Len(s) + 1
         /\ \A i \in 1 .. Len(s) : Append(s, e)[i] = s[i]
         /\ Append(s, e)[Len(s) + 1] = e
BY AppendProperties

LEMMA TimesType ==
  ASSUME NEW a \in Int, NEW b \in Nat
  PROVE  a * b \in Int /\ (a \in Nat => a * b \in Nat) /\ (a + 1) * b = a * b + b
OBVIOUS

-----------------------------------------------------------------------------
(* What the actions keep.                                                  *)

LEMMA TypesKept ==
  ASSUME StepUs \in Nat \ {0}, Period \in Nat \ {0}, Types, Rest!Next \/ UNCHANGED Rest!vars
  PROVE  Types'
<1>1. CASE Rest!Elapse
  BY <1>1 DEF Rest!Elapse, Types, Rest!engine, Rest!bus
<1>2. CASE Rest!DeviceSends
  <2>1. [src |-> "device", n |-> device + 1] \in Frames
    BY DEF Types, Frames
  <2>2. [frame |-> [src |-> "device", n |-> device + 1], at |-> now] \in Wires
    BY <2>1 DEF Types, Wires
  <2>3. socket' \in Seq(Frames) /\ wire' \in Seq(Wires)
    BY <1>2, <2>1, <2>2, BackFacts DEF Rest!DeviceSends, Rest!OnBus, Types
  <2> QED BY <1>2, <2>3 DEF Rest!DeviceSends, Types, Rest!engine
<1>3. CASE \E d \in Durations : Rest!Drive(d)
  BY <1>3 DEF Rest!Drive, Types, Rest!engine, Rest!bus
<1>4. CASE Rest!Loop \/ Rest!RecvTimesOut \/ Rest!Sync \/ Rest!RunDone \/ Rest!SendDone
  BY <1>4 DEF Rest!Loop, Rest!RecvTimesOut, Rest!Sync, Rest!RunDone, Rest!SendDone, Types, Rest!engine, Rest!bus
<1>5. CASE Rest!Recv
  <2>1. Head(socket) \in Frames /\ Tail(socket) \in Seq(Frames)
    BY <1>5, FrontFacts DEF Rest!Recv, Types
  <2>2. latest' \in Nat
    BY <1>5, <2>1 DEF Rest!Recv, Types, Frames
  <2> QED BY <1>5, <2>1, <2>2 DEF Rest!Recv, Types, Rest!engine
<1>6. CASE Rest!SimTick
  <2>1. [src |-> "node", n |-> sent + 1] \in Frames
    BY DEF Types, Frames
  <2>2. emitted' \in Seq(Frames)
    <3>1. Append(emitted, [src |-> "node", n |-> sent + 1]) \in Seq(Frames)
      BY <2>1, BackFacts DEF Types
    <3> QED BY <1>6, <3>1 DEF Rest!SimTick, Types
  <2> QED BY <1>6, <2>2 DEF Rest!SimTick, Types, Rest!bus
<1>7. CASE Rest!Send
  <2>1. Head(emitted) \in Frames /\ Tail(emitted) \in Seq(Frames)
    BY <1>7, FrontFacts DEF Rest!Send, Types
  <2>2. [frame |-> Head(emitted), at |-> now] \in Wires
    BY <2>1 DEF Types, Wires
  <2>3. socket' \in Seq(Frames) /\ wire' \in Seq(Wires)
    BY <1>7, <2>1, <2>2, BackFacts DEF Rest!Send, Rest!OnBus, Types
  <2> QED BY <1>7, <2>1, <2>3 DEF Rest!Send, Types, Rest!engine
<1>8. CASE Rest!Reset
  BY <1>8 DEF Rest!Reset, Types
<1>9. CASE UNCHANGED Rest!vars
  BY <1>9 DEF Rest!vars, Rest!engine, Rest!bus, Types
<1> QED BY <1>1, <1>2, <1>3, <1>4, <1>5, <1>6, <1>7, <1>8, <1>9 DEF Rest!Next, Rest!DriveStep

LEMMA BehindKept ==
  ASSUME StepUs \in Nat \ {0}, Period \in Nat \ {0}, Types, Behind, Rest!Next \/ UNCHANGED Rest!vars
  PROVE  Behind'
<1>1. CASE Rest!Elapse
  <2>1. ASSUME NEW i \in DOMAIN emitted PROVE emitted[i].n \in Nat
    <3>1. emitted[i] \in Frames
      BY DEF Types
    <3> QED BY <3>1 DEF Frames
  <2>2. ASSUME NEW i \in DOMAIN emitted
        PROVE  (emitted[i].n - 1) * Period < now + 1
    BY <2>1, TimesType DEF Behind, Types
  <2> QED BY <1>1, <2>2 DEF Rest!Elapse, Types, Behind, Rest!engine, Rest!bus
<1>2. CASE Rest!DeviceSends
  <2>1. wire' = Append(wire, [frame |-> [src |-> "device", n |-> device + 1], at |-> now])
    BY <1>2 DEF Rest!DeviceSends, Rest!OnBus
  <2>2. [frame |-> [src |-> "device", n |-> device + 1], at |-> now] \in Wires
    BY DEF Types, Frames, Wires
  <2>3. \A i \in DOMAIN wire' :
          wire'[i].frame.src = "node" => (wire'[i].frame.n - 1) * Period < wire'[i].at
    BY <2>1, <2>2, BackFacts DEF Types, Behind
  <2> QED BY <1>2, <2>3 DEF Rest!DeviceSends, Behind, Rest!engine
<1>3. CASE (\E d \in Durations : Rest!Drive(d)) \/ Rest!Loop \/ Rest!RecvTimesOut \/ Rest!RunDone \/ Rest!SendDone
           \/ UNCHANGED Rest!vars
  <2>1. UNCHANGED <<now, goal, sim, next, sent, emitted, wire>>
    BY <1>3 DEF Rest!Drive, Rest!Loop, Rest!RecvTimesOut, Rest!RunDone, Rest!SendDone, Rest!engine, Rest!bus, Rest!vars
  <2> QED BY <2>1 DEF Behind
<1>4. CASE Rest!Recv
  BY <1>4 DEF Rest!Recv, Behind, Rest!engine
<1>5. CASE Rest!Sync
  BY <1>5 DEF Rest!Sync, Behind, Types, Rest!engine, Rest!bus
<1>6. CASE Rest!SimTick
  <2>1. /\ sim < goal /\ goal <= now /\ sim' = sim + StepUs
        /\ UNCHANGED <<now, goal, wire>>
    BY <1>6 DEF Rest!SimTick, Behind, Rest!bus
  <2>2. sim' < now' + StepUs
    BY <2>1 DEF Types
  <2>3. CASE sim >= next
    <3>1. /\ next' = sim + Period /\ sent' = sent + 1
          /\ emitted' = Append(emitted, [src |-> "node", n |-> sent + 1])
      BY <1>6, <2>3 DEF Rest!SimTick
    <3>2. sent * Period \in Nat /\ (sent + 1) * Period = sent * Period + Period
      BY TimesType DEF Types
    <3>3. sent' * Period <= next'
      BY <2>3, <3>1, <3>2 DEF Behind, Types
    <3>4. (sent + 1 - 1) * Period < now
      BY <2>1, <2>3, <3>2 DEF Behind, Types
    <3>5. [src |-> "node", n |-> sent + 1] \in Frames
      BY DEF Types, Frames
    <3>6. \A i \in DOMAIN emitted' :
            emitted'[i].src = "node" /\ (emitted'[i].n - 1) * Period < now
      BY <3>1, <3>4, <3>5, BackFacts DEF Types, Behind
    <3> QED BY <2>1, <2>2, <3>3, <3>6 DEF Behind
  <2>4. CASE ~(sim >= next)
    <3>1. UNCHANGED <<next, sent, emitted>>
      BY <1>6, <2>4 DEF Rest!SimTick
    <3> QED BY <2>1, <2>2, <3>1 DEF Behind
  <2> QED BY <2>3, <2>4
<1>7. CASE Rest!Send
  <2>1. /\ emitted # <<>> /\ emitted' = Tail(emitted)
        /\ wire' = Append(wire, [frame |-> Head(emitted), at |-> now])
        /\ UNCHANGED <<now, goal, sim, next, sent>>
    BY <1>7 DEF Rest!Send, Rest!OnBus, Rest!engine
  <2>2. /\ Head(emitted) = emitted[1] /\ Head(emitted) \in Frames /\ 1 \in DOMAIN emitted
        /\ DOMAIN Tail(emitted) = 1 .. Len(emitted) - 1 /\ DOMAIN emitted = 1 .. Len(emitted)
        /\ \A i \in 1 .. Len(emitted) - 1 : Tail(emitted)[i] = emitted[i + 1]
        /\ Len(emitted) \in Nat
    BY <2>1, FrontFacts DEF Types
  <2>3. [frame |-> Head(emitted), at |-> now] \in Wires
    BY <2>2 DEF Types, Wires
  <2>4. (Head(emitted).n - 1) * Period < now
    BY <2>2 DEF Behind
  <2>5. \A i \in DOMAIN wire' :
          wire'[i].frame.src = "node" => (wire'[i].frame.n - 1) * Period < wire'[i].at
    BY <2>1, <2>3, <2>4, BackFacts DEF Types, Behind
  <2>6. ASSUME NEW i \in DOMAIN emitted'
        PROVE  emitted'[i].src = "node" /\ (emitted'[i].n - 1) * Period < now
    <3>1. i \in 1 .. Len(emitted) - 1 /\ i + 1 \in DOMAIN emitted /\ emitted'[i] = emitted[i + 1]
      BY <2>1, <2>2
    <3> QED BY <3>1 DEF Behind
  <2> QED BY <2>1, <2>5, <2>6 DEF Behind
<1>8. CASE Rest!Reset
  BY <1>8 DEF Rest!Reset, Behind
<1> QED BY <1>1, <1>2, <1>3, <1>4, <1>5, <1>6, <1>7, <1>8 DEF Rest!Next, Rest!DriveStep

LEMMA DrainedKept ==
  ASSUME Types, Drained, Rest!Next \/ UNCHANGED Rest!vars
  PROVE  Drained'
<1>1. CASE Rest!Elapse
  BY <1>1 DEF Rest!Elapse, Drained, Newest, Rest!engine, Rest!bus
<1>2. CASE Rest!DeviceSends
  <2> DEFINE f == [src |-> "device", n |-> device + 1]
  <2>1. /\ socket' = Append(socket, f) /\ f.src = "device" /\ f \in Frames
        /\ UNCHANGED <<pc, sent, emitted, latest>>
    BY <1>2 DEF Rest!DeviceSends, Rest!OnBus, Rest!engine, Types, Frames
  <2> HIDE DEF f
  <2>2. /\ Len(socket') = Len(socket) + 1 /\ socket'[Len(socket) + 1] = f
        /\ \A i \in 1 .. Len(socket) : socket'[i] = socket[i]
        /\ DOMAIN socket' = 1 .. Len(socket) + 1 /\ DOMAIN socket = 1 .. Len(socket)
        /\ Len(socket) \in Nat
    BY <2>1, BackFacts DEF Types
  <2>3. ASSUME NEW i \in DOMAIN socket', socket'[i].src = "node", emitted = <<>>
        PROVE  \E j \in i .. Len(socket') : socket'[j] = Newest
    <3>1. i \in 1 .. Len(socket) /\ socket[i].src = "node"
      BY <2>1, <2>2, <2>3
    <3>2. PICK j \in i .. Len(socket) : socket[j] = Newest
      BY <2>2, <2>3, <3>1 DEF Drained
    <3>3. j \in 1 .. Len(socket) /\ j \in i .. Len(socket')
      BY <2>2, <3>1, <3>2
    <3>4. socket'[j] = Newest
      BY <2>2, <3>2, <3>3
    <3> QED BY <3>3, <3>4
  <2>4. (\A i \in DOMAIN socket' : socket'[i].src # "node")
          => \A i \in DOMAIN socket : socket[i].src # "node"
    BY <2>2
  <2> QED BY <2>1, <2>3, <2>4 DEF Drained, Newest
<1>3. CASE (\E d \in Durations : Rest!Drive(d)) \/ Rest!Loop \/ Rest!RecvTimesOut \/ Rest!Sync \/ Rest!RunDone
           \/ Rest!SendDone \/ UNCHANGED Rest!vars
  <2>1. UNCHANGED <<sent, emitted, socket, latest>>
    BY <1>3 DEF Rest!Drive, Rest!Loop, Rest!RecvTimesOut, Rest!Sync, Rest!RunDone, Rest!SendDone, Rest!engine, Rest!bus, Rest!vars
  <2>2. emitted # <<>> => pc' \in {"run", "send"}
    BY <1>3 DEF Rest!Drive, Rest!Loop, Rest!RecvTimesOut, Rest!Sync, Rest!RunDone, Rest!SendDone, Rest!vars, Drained
  <2> QED BY <2>1, <2>2 DEF Drained, Newest
<1>4. CASE Rest!Recv
  <2>1. /\ pc = "recv" /\ socket # <<>> /\ socket' = Tail(socket)
        /\ latest' = (IF Head(socket).src = "node" THEN Head(socket).n ELSE latest)
        /\ UNCHANGED <<sent, emitted>>
    BY <1>4 DEF Rest!Recv, Rest!engine
  <2>2. emitted = <<>>
    BY <2>1 DEF Drained
  <2>3. /\ Len(socket) \in Nat \ {0} /\ Head(socket) = socket[1]
        /\ DOMAIN socket = 1 .. Len(socket) /\ DOMAIN socket' = 1 .. Len(socket) - 1
        /\ Len(socket') = Len(socket) - 1
        /\ \A i \in 1 .. Len(socket) - 1 : socket'[i] = socket[i + 1]
    BY <2>1, FrontFacts DEF Types
  <2>4. ASSUME NEW i \in DOMAIN socket', socket'[i].src = "node"
        PROVE  \E j \in i .. Len(socket') : socket'[j] = Newest
    <3>1. i + 1 \in DOMAIN socket /\ socket[i + 1].src = "node" /\ i \in Nat
      BY <2>3, <2>4
    <3>2. PICK j \in i + 1 .. Len(socket) : socket[j] = Newest
      BY <2>2, <3>1 DEF Drained
    <3>3. j - 1 \in i .. Len(socket') /\ j - 1 \in 1 .. Len(socket) - 1 /\ j - 1 + 1 = j
      BY <2>3, <3>1, <3>2
    <3>4. socket'[j - 1] = Newest
      BY <2>3, <3>2, <3>3
    <3> QED BY <3>3, <3>4
  <2>5. ASSUME \A i \in DOMAIN socket' : socket'[i].src # "node"
        PROVE  latest' = sent
    <3>1. ASSUME NEW j \in 2 .. Len(socket) PROVE socket[j].src # "node"
      <4>1. j - 1 \in 1 .. Len(socket) - 1 /\ j - 1 + 1 = j
        BY <2>3
      <4>2. socket'[j - 1] = socket[j]
        BY <2>3, <4>1
      <4> QED BY <2>3, <2>5, <4>1, <4>2
    <3>2. CASE socket[1].src = "node"
      <4>1. PICK j \in 1 .. Len(socket) : socket[j] = Newest
        BY <2>2, <2>3, <3>2 DEF Drained
      <4>2. Newest.src = "node" /\ Newest.n = sent
        BY DEF Newest
      <4>3. j = 1
        BY <2>3, <3>1, <4>1, <4>2
      <4> QED BY <2>1, <2>3, <4>1, <4>2, <4>3
    <3>3. CASE socket[1].src # "node"
      <4>1. \A j \in DOMAIN socket : socket[j].src # "node"
        BY <2>3, <3>1, <3>3
      <4> QED BY <2>1, <2>2, <2>3, <3>3, <4>1 DEF Drained
    <3> QED BY <3>2, <3>3
  <2> QED BY <2>1, <2>2, <2>4, <2>5 DEF Drained, Newest
<1>5. CASE Rest!SimTick
  <2>1. CASE sim >= next
    <3>1. /\ pc' = "run" /\ sent' = sent + 1 /\ latest' = sent' /\ socket' = socket
          /\ emitted' = Append(emitted, Newest')
      BY <1>5, <2>1 DEF Rest!SimTick, Rest!bus, Newest
    <3>2. Newest' \in Frames
      BY <3>1 DEF Newest, Types, Frames
    <3>3. emitted' # <<>> /\ emitted'[Len(emitted')] = Newest'
      BY <3>1, <3>2, BackFacts DEF Types
    <3> QED BY <3>1, <3>3 DEF Drained
  <2>2. CASE ~(sim >= next)
    <3>1. UNCHANGED <<pc, sent, latest, emitted, socket>>
      BY <1>5, <2>2 DEF Rest!SimTick, Rest!bus
    <3> QED BY <3>1 DEF Drained, Newest
  <2> QED BY <2>1, <2>2
<1>6. CASE Rest!Send
  <2>1. /\ pc = "send" /\ pc' = "send" /\ emitted # <<>>
        /\ socket' = Append(socket, Head(emitted)) /\ emitted' = Tail(emitted)
        /\ UNCHANGED <<sent, latest>>
    BY <1>6 DEF Rest!Send, Rest!OnBus, Rest!engine
  <2>2. /\ Len(emitted) \in Nat \ {0} /\ Head(emitted) = emitted[1] /\ Head(emitted) \in Frames
        /\ emitted' \in Seq(Frames) /\ Len(emitted') = Len(emitted) - 1
        /\ \A i \in 1 .. Len(emitted) - 1 : emitted'[i] = emitted[i + 1]
        /\ emitted[Len(emitted)] = Newest
    BY <2>1, FrontFacts DEF Types, Drained
  <2>3. Newest' = Newest
    BY <2>1 DEF Newest
  <2>4. CASE Len(emitted) # 1
    <3>1. emitted' # <<>> /\ emitted'[Len(emitted')] = Newest
      BY <2>2, <2>4
    <3> QED BY <2>1, <2>3, <3>1 DEF Drained
  <2>5. CASE Len(emitted) = 1
    <3>1. emitted' = <<>> /\ Head(emitted) = Newest
      BY <2>2, <2>5
    <3>2. /\ Len(socket') = Len(socket) + 1 /\ socket'[Len(socket')] = Newest
          /\ DOMAIN socket' = 1 .. Len(socket') /\ Len(socket) \in Nat
      BY <2>1, <2>2, <3>1, BackFacts DEF Types
    <3>3. Newest.src = "node"
      BY DEF Newest
    <3>4. ASSUME NEW i \in DOMAIN socket'
          PROVE  \E j \in i .. Len(socket') : socket'[j] = Newest
      <4>1. Len(socket') \in i .. Len(socket')
        BY <3>2
      <4> QED BY <3>2, <4>1
    <3>5. Len(socket') \in DOMAIN socket' /\ socket'[Len(socket')].src = "node"
      BY <3>2, <3>3
    <3> QED BY <2>3, <3>1, <3>4, <3>5 DEF Drained
  <2> QED BY <2>4, <2>5
<1>7. CASE Rest!Reset
  BY <1>7 DEF Rest!Reset, Drained, Newest
<1> QED BY <1>1, <1>2, <1>3, <1>4, <1>5, <1>6, <1>7 DEF Rest!Next, Rest!DriveStep

-----------------------------------------------------------------------------
(* Every frame once.                                                       *)

\* The positions, among the first k, at which a frame of the node is on wire w.
NodesAt(w, k) == {i \in 1 .. k : w[i].frame.src = "node"}

LEMMA NodesAtFinite ==
  ASSUME NEW w, NEW k \in Nat
  PROVE  IsFiniteSet(NodesAt(w, k)) /\ Cardinality(NodesAt(w, k)) \in Nat
<1>1. IsFiniteSet(1 .. k)
  BY FS_Interval
<1>2. NodesAt(w, k) \subseteq 1 .. k
  BY DEF NodesAt
<1> QED BY <1>1, <1>2, FS_Subset, FS_CardinalityType

LEMMA NodesAtNone ==
  ASSUME NEW w
  PROVE  Cardinality(NodesAt(w, 0)) = 0
<1>1. NodesAt(w, 0) = {}
  BY DEF NodesAt
<1> QED BY <1>1, FS_EmptySet

\* A frame more on the wire is counted from its own position on, if it is the node's.
LEMMA NodesAtAppend ==
  ASSUME NEW w \in Seq(Wires), NEW e \in Wires
  PROVE  /\ \A k \in 1 .. Len(w) : NodesAt(Append(w, e), k) = NodesAt(w, k)
         /\ Cardinality(NodesAt(Append(w, e), Len(w) + 1))
              = Cardinality(NodesAt(w, Len(w))) + (IF e.frame.src = "node" THEN 1 ELSE 0)
<1> DEFINE v == Append(w, e)
<1>1. /\ Len(w) \in Nat /\ v[Len(w) + 1] = e
      /\ \A i \in 1 .. Len(w) : v[i] = w[i]
  BY BackFacts
<1> HIDE DEF v
<1>2. \A k \in 1 .. Len(w) : NodesAt(v, k) = NodesAt(w, k)
  BY <1>1 DEF NodesAt
<1>3. IsFiniteSet(NodesAt(w, Len(w))) /\ Cardinality(NodesAt(w, Len(w))) \in Nat
  BY <1>1, NodesAtFinite
<1>4. CASE e.frame.src = "node"
  <2>1. NodesAt(v, Len(w) + 1) = NodesAt(w, Len(w)) \cup {Len(w) + 1}
    BY <1>1, <1>4 DEF NodesAt
  <2>2. Len(w) + 1 \notin NodesAt(w, Len(w))
    BY <1>1 DEF NodesAt
  <2>3. Cardinality(NodesAt(v, Len(w) + 1)) = Cardinality(NodesAt(w, Len(w))) + 1
    BY <1>3, <2>1, <2>2, FS_AddElement
  <2> QED BY <1>2, <1>4, <2>3 DEF v
<1>5. CASE e.frame.src # "node"
  <2>1. NodesAt(v, Len(w) + 1) = NodesAt(w, Len(w))
    BY <1>1, <1>5 DEF NodesAt
  <2> QED BY <1>2, <1>3, <1>5, <2>1 DEF v
<1> QED BY <1>4, <1>5

\* Every frame of the node is counted once, on the wire and then among the emitted.
Counted ==
  /\ \A i \in DOMAIN wire :
       wire[i].frame.src = "node" => wire[i].frame.n = Cardinality(NodesAt(wire, i))
  /\ \A i \in DOMAIN emitted :
       emitted[i] = [src |-> "node", n |-> Cardinality(NodesAt(wire, Len(wire))) + i]
  /\ sent = Cardinality(NodesAt(wire, Len(wire))) + Len(emitted)

\* What was injected and what still waits is what was on the wire, in its order.
Injected ==
  /\ heard \in Seq(Frames)
  /\ Len(heard) + Len(socket) = Len(wire)
  /\ \A i \in 1 .. Len(heard) : heard[i] = wire[i].frame
  /\ \A i \in 1 .. Len(socket) : socket[i] = wire[Len(heard) + i].frame

\* A device's frame is on the wire behind the node's, and is none of them.
LEMMA CountedOnBus ==
  ASSUME Types, Counted, NEW f \in Frames, f.src # "node",
         wire' = Append(wire, [frame |-> f, at |-> now]), UNCHANGED <<emitted, sent>>
  PROVE  Counted'
<1> DEFINE e == [frame |-> f, at |-> now]
<1>1. e \in Wires /\ e.frame = f
  BY DEF Types, Wires
<1>2. wire' = Append(wire, e)
  OBVIOUS
<1> HIDE DEF e
<1>3. /\ Len(wire') = Len(wire) + 1 /\ Len(wire) \in Nat /\ wire'[Len(wire) + 1] = e
      /\ \A i \in 1 .. Len(wire) : wire'[i] = wire[i]
      /\ DOMAIN wire' = 1 .. Len(wire) + 1 /\ DOMAIN wire = 1 .. Len(wire)
  BY <1>1, <1>2, BackFacts DEF Types
<1>4. /\ \A k \in 1 .. Len(wire) : NodesAt(wire', k) = NodesAt(wire, k)
      /\ Cardinality(NodesAt(wire', Len(wire')))
           = Cardinality(NodesAt(wire, Len(wire))) + 0
  BY <1>1, <1>2, <1>3, NodesAtAppend DEF Types
<1>5. Cardinality(NodesAt(wire', Len(wire'))) = Cardinality(NodesAt(wire, Len(wire)))
  BY <1>3, <1>4, NodesAtFinite
<1>6. ASSUME NEW i \in DOMAIN wire', wire'[i].frame.src = "node"
      PROVE  wire'[i].frame.n = Cardinality(NodesAt(wire', i))
  <2>1. i \in 1 .. Len(wire)
    BY <1>1, <1>3, <1>6
  <2> QED BY <1>3, <1>4, <1>6, <2>1 DEF Counted
<1> QED BY <1>5, <1>6 DEF Counted

LEMMA CountedKept ==
  ASSUME Types, Counted, Rest!Next \/ UNCHANGED Rest!vars
  PROVE  Counted'
<1>1. CASE Rest!Elapse \/ (\E d \in Durations : Rest!Drive(d)) \/ Rest!Loop \/ Rest!RecvTimesOut
           \/ Rest!Sync \/ Rest!RunDone \/ Rest!SendDone \/ Rest!Recv \/ UNCHANGED Rest!vars
  <2>1. UNCHANGED <<sent, emitted, wire>>
    BY <1>1 DEF Rest!Elapse, Rest!Drive, Rest!Loop, Rest!RecvTimesOut, Rest!Sync, Rest!RunDone,
                Rest!SendDone, Rest!Recv, Rest!engine, Rest!bus, Rest!vars
  <2> QED BY <2>1 DEF Counted
<1>2. CASE Rest!DeviceSends
  <2> DEFINE f == [src |-> "device", n |-> device + 1]
  <2>1. f \in Frames /\ f.src # "node"
    BY DEF Types, Frames
  <2>2. wire' = Append(wire, [frame |-> f, at |-> now]) /\ UNCHANGED <<emitted, sent>>
    BY <1>2 DEF Rest!DeviceSends, Rest!OnBus, Rest!engine
  <2> HIDE DEF f
  <2> QED BY <2>1, <2>2, CountedOnBus
<1>3. CASE Rest!SimTick
  <2>1. CASE sim >= next
    <3> DEFINE f == [src |-> "node", n |-> sent + 1]
    <3>1. wire' = wire /\ sent' = sent + 1 /\ emitted' = Append(emitted, f)
      BY <1>3, <2>1 DEF Rest!SimTick, Rest!bus
    <3>2. f \in Frames
      BY DEF Types, Frames
    <3>3. /\ Len(emitted') = Len(emitted) + 1 /\ Len(emitted) \in Nat
          /\ emitted'[Len(emitted) + 1] = f
          /\ \A i \in 1 .. Len(emitted) : emitted'[i] = emitted[i]
          /\ DOMAIN emitted' = 1 .. Len(emitted) + 1 /\ DOMAIN emitted = 1 .. Len(emitted)
      BY <3>1, <3>2, BackFacts DEF Types
    <3>4. PICK c \in Nat : c = Cardinality(NodesAt(wire, Len(wire)))
      <4>1. Len(wire) \in Nat
        BY DEF Types
      <4> QED BY <4>1, NodesAtFinite
    <3>5. f = [src |-> "node", n |-> c + (Len(emitted) + 1)]
      BY <3>3, <3>4 DEF Counted
    <3> HIDE DEF f
    <3>6. sent' = c + Len(emitted')
      BY <3>1, <3>3, <3>4 DEF Counted
    <3>7. ASSUME NEW i \in DOMAIN emitted'
          PROVE  emitted'[i] = [src |-> "node", n |-> c + i]
      <4>1. CASE i \in 1 .. Len(emitted)
        BY <3>3, <3>4, <4>1 DEF Counted
      <4>2. CASE i = Len(emitted) + 1
        BY <3>3, <3>5, <4>2
      <4> QED BY <3>3, <4>1, <4>2
    <3> QED BY <3>1, <3>4, <3>6, <3>7 DEF Counted
  <2>2. CASE ~(sim >= next)
    <3>1. UNCHANGED <<sent, emitted, wire>>
      BY <1>3, <2>2 DEF Rest!SimTick, Rest!bus
    <3> QED BY <3>1 DEF Counted
  <2> QED BY <2>1, <2>2
<1>4. CASE Rest!Send
  <2> DEFINE f == Head(emitted)
             e == [frame |-> f, at |-> now]
  <2>1. /\ emitted # <<>> /\ emitted' = Tail(emitted) /\ sent' = sent
        /\ wire' = Append(wire, e)
    BY <1>4 DEF Rest!Send, Rest!OnBus, Rest!engine
  <2>2. /\ Len(emitted) \in Nat \ {0} /\ f = emitted[1] /\ f \in Frames
        /\ Len(emitted') = Len(emitted) - 1
        /\ DOMAIN emitted = 1 .. Len(emitted) /\ DOMAIN emitted' = 1 .. Len(emitted) - 1
        /\ \A i \in 1 .. Len(emitted) - 1 : emitted'[i] = emitted[i + 1]
    BY <2>1, FrontFacts DEF Types
  <2>3. PICK c \in Nat : c = Cardinality(NodesAt(wire, Len(wire)))
    <3>1. Len(wire) \in Nat
      BY DEF Types
    <3> QED BY <3>1, NodesAtFinite
  <2>4. f = [src |-> "node", n |-> c + 1] /\ sent = c + Len(emitted)
    <3>1. 1 \in DOMAIN emitted
      BY <2>2
    <3>2. emitted[1] = [src |-> "node", n |-> c + 1] /\ sent = c + Len(emitted)
      BY <2>3, <3>1 DEF Counted
    <3> QED BY <2>2, <3>2
  <2> HIDE DEF f
  <2>5. e \in Wires /\ e.frame = f
    BY <2>2 DEF Types, Wires
  <2> HIDE DEF e
  <2>6. /\ Len(wire') = Len(wire) + 1 /\ Len(wire) \in Nat /\ wire'[Len(wire) + 1] = e
        /\ \A i \in 1 .. Len(wire) : wire'[i] = wire[i]
        /\ DOMAIN wire' = 1 .. Len(wire) + 1 /\ DOMAIN wire = 1 .. Len(wire)
    BY <2>1, <2>5, BackFacts DEF Types
  <2>7. f.src = "node" /\ f.n = c + 1
    BY <2>4
  <2>8. /\ \A k \in 1 .. Len(wire) : NodesAt(wire', k) = NodesAt(wire, k)
        /\ Cardinality(NodesAt(wire', Len(wire'))) = c + 1
    BY <2>1, <2>3, <2>5, <2>6, <2>7, NodesAtAppend DEF Types
  <2>9. ASSUME NEW i \in DOMAIN wire', wire'[i].frame.src = "node"
        PROVE  wire'[i].frame.n = Cardinality(NodesAt(wire', i))
    <3>1. CASE i \in 1 .. Len(wire)
      BY <2>6, <2>8, <2>9, <3>1 DEF Counted
    <3>2. CASE i = Len(wire) + 1
      BY <2>5, <2>6, <2>7, <2>8, <3>2
    <3> QED BY <2>6, <3>1, <3>2
  <2>10. ASSUME NEW i \in DOMAIN emitted'
         PROVE  emitted'[i] = [src |-> "node", n |-> c + 1 + i]
    <3>1. i + 1 \in DOMAIN emitted /\ emitted'[i] = emitted[i + 1] /\ i \in Nat
      BY <2>2
    <3>2. emitted[i + 1] = [src |-> "node", n |-> c + (i + 1)]
      BY <2>3, <3>1 DEF Counted
    <3>3. c + (i + 1) = c + 1 + i
      BY <3>1
    <3> QED BY <3>1, <3>2, <3>3
  <2>11. sent' = c + 1 + Len(emitted')
    BY <2>1, <2>2, <2>4
  <2> QED BY <2>8, <2>9, <2>10, <2>11 DEF Counted
<1>5. CASE Rest!Reset
  <2>1. wire' = <<>> /\ emitted' = <<>> /\ sent' = 0
    BY <1>5 DEF Rest!Reset
  <2>2. DOMAIN wire' = {} /\ DOMAIN emitted' = {} /\ Len(wire') = 0 /\ Len(emitted') = 0
    BY <2>1
  <2> QED BY <2>1, <2>2, NodesAtNone DEF Counted
<1> QED BY <1>1, <1>2, <1>3, <1>4, <1>5 DEF Rest!Next, Rest!DriveStep

\* What anybody sends is behind what was not heard.
LEMMA InjectedOnBus ==
  ASSUME Types, Injected, NEW f \in Frames, heard' = heard,
         wire' = Append(wire, [frame |-> f, at |-> now]), socket' = Append(socket, f)
  PROVE  Injected'
<1> DEFINE e == [frame |-> f, at |-> now]
<1>1. e \in Wires /\ e.frame = f
  BY DEF Types, Wires
<1>2. wire' = Append(wire, e)
  OBVIOUS
<1> HIDE DEF e
<1>3. /\ Len(wire') = Len(wire) + 1 /\ Len(wire) \in Nat /\ wire'[Len(wire) + 1] = e
      /\ \A i \in 1 .. Len(wire) : wire'[i] = wire[i]
  BY <1>1, <1>2, BackFacts DEF Types
<1>4. /\ Len(socket') = Len(socket) + 1 /\ Len(socket) \in Nat /\ socket'[Len(socket) + 1] = f
      /\ \A i \in 1 .. Len(socket) : socket'[i] = socket[i]
  BY BackFacts DEF Types
<1>5. heard \in Seq(Frames) /\ Len(heard) \in Nat /\ Len(heard) + Len(socket) = Len(wire)
  BY DEF Injected
<1>6. PICK h \in Nat, k \in Nat :
        /\ h = Len(heard) /\ k = Len(socket) /\ Len(wire) = h + k
        /\ Len(socket') = k + 1 /\ Len(wire') = h + k + 1
  BY <1>3, <1>4, <1>5
<1>7. ASSUME NEW i \in 1 .. h PROVE heard'[i] = wire'[i].frame
  <2>1. i \in 1 .. Len(wire)
    BY <1>6
  <2>2. wire'[i] = wire[i] /\ heard[i] = wire[i].frame
    BY <1>3, <1>6, <2>1 DEF Injected
  <2> QED BY <2>2
<1>8. ASSUME NEW i \in 1 .. k + 1 PROVE socket'[i] = wire'[h + i].frame
  <2>1. CASE i \in 1 .. k
    <3>1. h + i \in 1 .. Len(wire)
      BY <1>6, <2>1
    <3>2. wire'[h + i] = wire[h + i] /\ socket[i] = wire[h + i].frame /\ socket'[i] = socket[i]
      BY <1>3, <1>4, <1>6, <2>1, <3>1 DEF Injected
    <3> QED BY <3>2
  <2>2. CASE i = k + 1
    <3>1. h + i = Len(wire) + 1
      BY <1>6, <2>2
    <3>2. socket'[i] = f /\ wire'[h + i] = e
      BY <1>3, <1>4, <1>6, <2>2, <3>1
    <3> QED BY <1>1, <3>2
  <2>3. i \in 1 .. k \/ i = k + 1
    BY <1>6
  <2> QED BY <2>1, <2>2, <2>3
<1>9. /\ heard' \in Seq(Frames) /\ Len(heard') = h
      /\ Len(heard') + Len(socket') = Len(wire')
  BY <1>5, <1>6
<1> QED BY <1>6, <1>7, <1>8, <1>9 DEF Injected

LEMMA InjectedKept ==
  ASSUME Types, Injected, Rest!Next \/ UNCHANGED Rest!vars
  PROVE  Injected'
<1>1. CASE Rest!Elapse \/ (\E d \in Durations : Rest!Drive(d)) \/ Rest!Loop \/ Rest!RecvTimesOut
           \/ Rest!Sync \/ Rest!RunDone \/ Rest!SendDone \/ Rest!SimTick \/ UNCHANGED Rest!vars
  <2>1. UNCHANGED <<heard, socket, wire>>
    BY <1>1 DEF Rest!Elapse, Rest!Drive, Rest!Loop, Rest!RecvTimesOut, Rest!Sync, Rest!RunDone,
                Rest!SendDone, Rest!SimTick, Rest!engine, Rest!bus, Rest!vars
  <2> QED BY <2>1 DEF Injected
<1>2. CASE Rest!DeviceSends
  <2> DEFINE f == [src |-> "device", n |-> device + 1]
  <2>1. f \in Frames
    BY DEF Types, Frames
  <2>2. /\ wire' = Append(wire, [frame |-> f, at |-> now])
        /\ socket' = Append(socket, f) /\ heard' = heard
    BY <1>2 DEF Rest!DeviceSends, Rest!OnBus
  <2> HIDE DEF f
  <2> QED BY <2>1, <2>2, InjectedOnBus
<1>3. CASE Rest!Send
  <2>1. PICK f : f = Head(emitted)
    OBVIOUS
  <2>2. f \in Frames
    BY <1>3, <2>1, FrontFacts DEF Rest!Send, Types
  <2>3. /\ wire' = Append(wire, [frame |-> f, at |-> now])
        /\ socket' = Append(socket, f) /\ heard' = heard
    BY <1>3, <2>1 DEF Rest!Send, Rest!OnBus
  <2> QED BY <2>2, <2>3, InjectedOnBus
<1>4. CASE Rest!Recv
  <2>1. PICK f : f = Head(socket)
    OBVIOUS
  <2>2. socket # <<>> /\ socket' = Tail(socket) /\ heard' = Append(heard, f) /\ wire' = wire
    BY <1>4, <2>1 DEF Rest!Recv
  <2>3. /\ Len(socket) \in Nat \ {0} /\ f = socket[1] /\ f \in Frames
        /\ Len(socket') = Len(socket) - 1
        /\ \A i \in 1 .. Len(socket) - 1 : socket'[i] = socket[i + 1]
    BY <2>1, <2>2, FrontFacts DEF Types
  <2>4. /\ heard' \in Seq(Frames) /\ Len(heard') = Len(heard) + 1 /\ Len(heard) \in Nat
        /\ heard'[Len(heard) + 1] = f
        /\ \A i \in 1 .. Len(heard) : heard'[i] = heard[i]
    BY <2>2, <2>3, BackFacts DEF Injected
  <2>5. Len(heard) + Len(socket) = Len(wire) /\ Len(heard') + Len(socket') = Len(wire)
    BY <2>3, <2>4 DEF Injected
  <2>6. f = wire[Len(heard) + 1].frame
    BY <2>3 DEF Injected
  <2>7. ASSUME NEW i \in 1 .. Len(heard') PROVE heard'[i] = wire[i].frame
    <3>1. CASE i \in 1 .. Len(heard)
      BY <2>4, <3>1 DEF Injected
    <3>2. CASE i = Len(heard) + 1
      BY <2>4, <2>6, <3>2
    <3> QED BY <2>4, <3>1, <3>2
  <2>8. ASSUME NEW i \in 1 .. Len(socket') PROVE socket'[i] = wire[Len(heard') + i].frame
    <3>1. i + 1 \in 1 .. Len(socket) /\ socket'[i] = socket[i + 1] /\ i \in Nat
      BY <2>3
    <3>2. socket[i + 1] = wire[Len(heard) + (i + 1)].frame
      BY <3>1 DEF Injected
    <3>3. Len(heard) + (i + 1) = Len(heard') + i
      BY <2>4, <3>1
    <3> QED BY <3>1, <3>2, <3>3
  <2> QED BY <2>2, <2>4, <2>5, <2>7, <2>8 DEF Injected
<1>5. CASE Rest!Reset
  <2>1. wire' = <<>> /\ socket' = <<>> /\ heard' = <<>>
    BY <1>5 DEF Rest!Reset
  <2> QED BY <2>1 DEF Injected
<1> QED BY <1>1, <1>2, <1>3, <1>4, <1>5 DEF Rest!Next, Rest!DriveStep

-----------------------------------------------------------------------------
(* Whole steps.                                                            *)

LEMMA TimesMonotonic ==
  ASSUME NEW p \in Nat, NEW a \in Nat, NEW b \in Nat, a <= b
  PROVE  a * p <= b * p
<1>1. PICK d \in Nat : b = a + d
  <2>1. b - a \in Nat /\ b = a + (b - a)
    OBVIOUS
  <2> QED BY <2>1
<1>2. b * p = a * p + d * p /\ d * p \in Nat /\ a * p \in Nat
  BY <1>1
<1> QED BY <1>2

\* The next multiple is at most any greater multiple.
LEMMA NextMultiple ==
  ASSUME NEW p \in Nat \ {0}, NEW a \in Nat, NEW b \in Nat, a * p < b * p
  PROVE  a * p + p <= b * p
<1>1. ~(b <= a)
  <2>1. b <= a => b * p <= a * p
    BY TimesMonotonic
  <2>2. a * p \in Nat /\ b * p \in Nat
    OBVIOUS
  <2> QED BY <2>1, <2>2
<1>2. a + 1 <= b
  BY <1>1
<1>3. (a + 1) * p <= b * p
  BY <1>2, TimesMonotonic
<1>4. (a + 1) * p = a * p + p
  OBVIOUS
<1> QED BY <1>3, <1>4

\* A quotient, rounded up.
LEMMA RoundedUp ==
  ASSUME NEW p \in Nat \ {0}, NEW n \in Nat, NEW t \in Nat, t <= n * p, n * p < t + p
  PROVE  n = (t + p - 1) \div p
<1> DEFINE a == t + p - 1
           d == a \div p
<1>1. a \in Nat /\ n * p \in Nat /\ n * p <= a /\ a < n * p + p
  OBVIOUS
<1> HIDE DEF a
<1>2. d \in Nat /\ p * d <= a /\ a < p * d + p
  BY <1>1
<1> HIDE DEF d
<1>3. d * p \in Nat /\ d * p <= a /\ a < d * p + p
  BY <1>2
<1>4. ~(d * p < n * p)
  <2>1. d * p < n * p => d * p + p <= n * p
    BY <1>2, NextMultiple
  <2> QED BY <1>1, <1>3, <2>1
<1>5. ~(n * p < d * p)
  <2>1. n * p < d * p => n * p + p <= d * p
    BY <1>2, NextMultiple
  <2> QED BY <1>1, <1>3, <2>1
<1>6. n * p = d * p
  BY <1>1, <1>3, <1>4, <1>5
<1>7. n <= d /\ d <= n
  <2>1. ASSUME NEW x \in Nat, NEW y \in Nat, x + 1 <= y, x * p = y * p PROVE FALSE
    <3>1. (x + 1) * p <= y * p
      BY <2>1, TimesMonotonic
    <3>2. (x + 1) * p = x * p + p /\ x * p \in Nat
      OBVIOUS
    <3> QED BY <2>1, <3>1, <3>2
  <2>2. ~(n + 1 <= d) /\ ~(d + 1 <= n)
    BY <1>2, <1>6, <2>1
  <2> QED BY <1>2, <2>2
<1> QED BY <1>2, <1>7 DEF d, a

LEMMA ExactKept ==
  ASSUME StepUs \in Nat \ {0}, Period \in Nat \ {0}, Types, Exact, Rest!Next \/ UNCHANGED Rest!vars
  PROVE  Exact'
<1> SUFFICES ASSUME Period % StepUs = 0
             PROVE  /\ \E k \in Nat : sim' = k * StepUs
                    /\ \E q \in Nat : next' = q * StepUs
                    /\ next' = sent' * Period
                    /\ sim' <= next'
                    /\ next' < sim' + Period
  BY DEF Exact
<1>1. CASE Rest!SimTick
  <2>1. PICK k \in Nat : sim = k * StepUs
    BY DEF Exact
  <2>2. PICK q \in Nat : next = q * StepUs
    BY DEF Exact
  <2>3. PICK m \in Nat : Period = m * StepUs
    <3>1. Period \div StepUs \in Nat /\ Period = (Period \div StepUs) * StepUs
      OBVIOUS
    <3> QED BY <3>1
  <2>4. /\ next = sent * Period /\ sim <= next /\ next < sim + Period
        /\ sim \in Nat /\ next \in Nat /\ sent \in Nat
    BY DEF Exact, Types
  <2>5. sim' = sim + StepUs /\ sim' = (k + 1) * StepUs
    <3>1. (k + 1) * StepUs = k * StepUs + StepUs
      OBVIOUS
    <3> QED BY <1>1, <2>1, <3>1 DEF Rest!SimTick
  <2>6. StepUs <= Period
    <3>1. 0 * StepUs < m * StepUs
      BY <2>3
    <3>2. 0 * StepUs + StepUs <= m * StepUs
      BY <3>1, NextMultiple
    <3> QED BY <2>3, <3>2
  <2>7. \E n \in Nat : sim' = n * StepUs
    <3>1. k + 1 \in Nat
      OBVIOUS
    <3> QED BY <2>5, <3>1, Zenon
  <2>8. CASE sim >= next
    <3>1. next' = sim + Period /\ sent' = sent + 1 /\ sim = next
      BY <1>1, <2>4, <2>8 DEF Rest!SimTick
    <3>2. (sent + 1) * Period = sent * Period + Period
      BY <2>4
    <3>3. (q + m) * StepUs = q * StepUs + m * StepUs /\ q + m \in Nat
      OBVIOUS
    <3>4. next' = (q + m) * StepUs
      BY <2>2, <2>3, <3>1, <3>3
    <3>5. next' = sent' * Period
      BY <2>4, <3>1, <3>2
    <3>6. sim' <= next' /\ next' < sim' + Period
      BY <2>4, <2>5, <2>6, <3>1
    <3>7. \E n \in Nat : next' = n * StepUs
      BY <3>3, <3>4, Zenon
    <3> QED BY <2>7, <3>5, <3>6, <3>7
  <2>9. CASE ~(sim >= next)
    <3>1. next' = next /\ sent' = sent
      BY <1>1, <2>9 DEF Rest!SimTick
    <3>2. k * StepUs < q * StepUs
      BY <2>1, <2>2, <2>4, <2>9
    <3>3. sim' <= next
      BY <2>1, <2>2, <2>5, <3>2, NextMultiple
    <3>4. \E n \in Nat : next' = n * StepUs
      BY <2>2, <3>1, Zenon
    <3>5. next' = sent' * Period /\ sim' <= next' /\ next' < sim' + Period
      BY <2>4, <2>5, <3>1, <3>3
    <3> QED BY <2>7, <3>4, <3>5
  <2> QED BY <2>8, <2>9
<1>2. CASE Rest!Reset
  <2>1. sim' = 0 * StepUs /\ next' = 0 * StepUs /\ next' = sent' * Period /\ sim' = 0 /\ next' = 0
    BY <1>2 DEF Rest!Reset
  <2> QED BY <2>1
<1>3. CASE \/ Rest!Elapse \/ Rest!DeviceSends \/ (\E d \in Durations : Rest!Drive(d)) \/ Rest!Loop \/ Rest!Recv
           \/ Rest!RecvTimesOut \/ Rest!Sync \/ Rest!RunDone \/ Rest!Send \/ Rest!SendDone \/ UNCHANGED Rest!vars
  <2>1. UNCHANGED <<sim, next, sent>>
    BY <1>3 DEF Rest!Elapse, Rest!DeviceSends, Rest!Drive, Rest!Loop, Rest!Recv, Rest!RecvTimesOut, Rest!Sync, Rest!RunDone, Rest!Send,
                Rest!SendDone, Rest!engine, Rest!vars
  <2> QED BY <2>1 DEF Exact
<1> QED BY <1>1, <1>2, <1>3 DEF Rest!Next, Rest!DriveStep

-----------------------------------------------------------------------------
(* The books of the hardware targets: what waits or was returned stands in *)
(* one line, in the order of arrival, and the rest is gone.                *)

Messages == [n : Nat, key : Keys, at : Nat]

Ordered(line) == \A i, j \in 1 .. Len(line) : i < j => line[i].n < line[j].n

Account(line, gone, n) ==
  /\ line \in Seq(Messages)
  /\ gone \subseteq Messages
  /\ Ordered(line)
  /\ IsFiniteSet(gone)
  /\ Len(line) + Cardinality(gone) = n
  /\ {m.n : m \in Range(line) \cup gone} = 1 .. n
  /\ \A m \in gone, i \in 1 .. Len(line) : line[i].n # m.n

LEMMA SeqRange ==
  ASSUME NEW S, NEW s \in Seq(S)
  PROVE  /\ Len(s) \in Nat /\ DOMAIN s = 1 .. Len(s) /\ Range(s) \subseteq S
         /\ \A m : m \in Range(s) <=> \E i \in 1 .. Len(s) : m = s[i]
BY DEF Range

\* A message arrives.
LEMMA AccountArrives ==
  ASSUME NEW line, NEW gone, NEW n \in Nat, Account(line, gone, n),
         NEW m \in Messages, m.n = n + 1
  PROVE  Account(Append(line, m), gone, n + 1)
<1> DEFINE longer == Append(line, m)
           L == Len(line)
<1>1. line \in Seq(Messages) /\ gone \subseteq Messages /\ IsFiniteSet(gone) /\ Ordered(line)
      /\ L + Cardinality(gone) = n /\ {x.n : x \in Range(line) \cup gone} = 1 .. n
      /\ \A x \in gone, i \in 1 .. Len(line) : line[i].n # x.n
  BY DEF Account
<1>2. /\ longer \in Seq(Messages) /\ L \in Nat /\ Len(longer) = L + 1
      /\ \A i \in 1 .. L : longer[i] = line[i]
      /\ longer[L + 1] = m
  BY <1>1, BackFacts
<1>3. \A i \in 1 .. L : line[i] \in Range(line) /\ line[i].n \in 1 .. n
  BY <1>1, SeqRange
<1>4. \A x \in gone : x.n \in 1 .. n
  BY <1>1
<1> HIDE DEF longer
<1>5. Ordered(longer)
  <2> SUFFICES ASSUME NEW i \in 1 .. L + 1, NEW j \in 1 .. L + 1, i < j
               PROVE  longer[i].n < longer[j].n
    BY <1>2 DEF Ordered
  <2>1. CASE j = L + 1
    <3>1. i \in 1 .. L
      BY <1>2, <2>1
    <3> QED BY <1>2, <1>3, <2>1, <3>1
  <2>2. CASE j # L + 1
    <3>1. i \in 1 .. L /\ j \in 1 .. L
      BY <1>2, <2>2
    <3> QED BY <1>1, <1>2, <3>1 DEF Ordered
  <2> QED BY <2>1, <2>2
<1>6. L + 1 + Cardinality(gone) = n + 1
  <2>1. Cardinality(gone) \in Nat
    BY <1>1, FS_CardinalityType
  <2> QED BY <1>1, <1>2, <2>1
<1>7. {x.n : x \in Range(longer) \cup gone} = 1 .. n + 1
  <2>1. \A x : x \in Range(longer) <=> x \in Range(line) \/ x = m
    <3>1. \A x : x \in Range(longer) <=> \E i \in 1 .. L + 1 : x = longer[i]
      BY <1>2, SeqRange
    <3>2. \A x : x \in Range(line) <=> \E i \in 1 .. L : x = line[i]
      BY <1>1, SeqRange
    <3>3. L + 1 \in 1 .. L + 1 /\ \A i \in 1 .. L + 1 : i \in 1 .. L \/ i = L + 1
      BY <1>2
    <3>4. \A i \in 1 .. L : i \in 1 .. L + 1
      BY <1>2
    <3> QED BY <1>2, <3>1, <3>2, <3>3, <3>4
  <2>2. Range(longer) \cup gone = (Range(line) \cup gone) \cup {m}
    BY <2>1
  <2>3. {x.n : x \in Range(longer) \cup gone} = {x.n : x \in Range(line) \cup gone} \cup {n + 1}
    BY <2>2
  <2>4. 1 .. n + 1 = 1 .. n \cup {n + 1}
    OBVIOUS
  <2> QED BY <1>1, <2>3, <2>4
<1>8. \A x \in gone, i \in 1 .. L + 1 : longer[i].n # x.n
  <2> SUFFICES ASSUME NEW x \in gone, NEW i \in 1 .. L + 1 PROVE longer[i].n # x.n
    OBVIOUS
  <2>1. CASE i = L + 1
    BY <1>2, <1>4, <2>1
  <2>2. CASE i # L + 1
    <3>1. i \in 1 .. L
      BY <1>2, <2>2
    <3> QED BY <1>1, <1>2, <3>1
  <2> QED BY <2>1, <2>2
<1> QED BY <1>1, <1>2, <1>5, <1>6, <1>7, <1>8 DEF Account, longer

\* A stretch of the line is thrown away.
LEMMA AccountLoses ==
  ASSUME NEW a \in Seq(Messages), NEW b \in Seq(Messages), NEW c \in Seq(Messages),
         NEW gone, NEW n \in Nat, Account(a \o b \o c, gone, n)
  PROVE  Account(a \o c, gone \cup Range(b), n)
<1> DEFINE line == a \o b \o c
           short == a \o c
           A == Len(a)
           B == Len(b)
           C == Len(c)
           At(i) == IF i <= A THEN i ELSE i + B
<1>1. A \in Nat /\ B \in Nat /\ C \in Nat
  OBVIOUS
<1>2. /\ line \in Seq(Messages) /\ Len(line) = A + B + C
      /\ \A i \in 1 .. A : line[i] = a[i]
      /\ \A i \in 1 .. B : line[A + i] = b[i]
      /\ \A i \in 1 .. C : line[A + B + i] = c[i]
  <2> DEFINE ab == a \o b
  <2>1. /\ ab \in Seq(Messages) /\ Len(ab) = A + B
        /\ \A i \in 1 .. A : ab[i] = a[i]
        /\ \A i \in 1 .. B : ab[A + i] = b[i]
    OBVIOUS
  <2>2. line = ab \o c
    OBVIOUS
  <2> HIDE DEF ab
  <2>3. /\ line \in Seq(Messages) /\ Len(line) = A + B + C
        /\ \A i \in 1 .. A + B : line[i] = ab[i]
        /\ \A i \in 1 .. C : line[A + B + i] = c[i]
    BY <2>1, <2>2
  <2>4. \A i \in 1 .. B : A + i \in 1 .. A + B
    BY <1>1
  <2>5. \A i \in 1 .. A : i \in 1 .. A + B
    BY <1>1
  <2> QED BY <2>1, <2>3, <2>4, <2>5
<1>3. /\ short \in Seq(Messages) /\ Len(short) = A + C
      /\ \A i \in 1 .. A : short[i] = a[i]
      /\ \A i \in 1 .. C : short[A + i] = c[i]
  OBVIOUS
<1>4. gone \subseteq Messages /\ IsFiniteSet(gone) /\ Ordered(line)
      /\ Len(line) + Cardinality(gone) = n /\ {x.n : x \in Range(line) \cup gone} = 1 .. n
      /\ \A x \in gone, i \in 1 .. Len(line) : line[i].n # x.n
  BY DEF Account
<1> HIDE DEF line, short, A, B, C
<1>5. ASSUME NEW i \in 1 .. A + C
      PROVE  At(i) \in 1 .. A + B + C /\ short[i] = line[At(i)]
             /\ (At(i) <= A \/ At(i) > A + B)
  <2>1. CASE i <= A
    BY <1>1, <1>2, <1>3, <2>1
  <2>2. CASE ~(i <= A)
    <3>1. i - A \in 1 .. C /\ A + (i - A) = i /\ A + B + (i - A) = i + B /\ At(i) = i + B
      BY <1>1, <2>2
    <3>2. short[A + (i - A)] = c[i - A] /\ line[A + B + (i - A)] = c[i - A]
      BY <1>2, <1>3, <3>1
    <3>3. short[i] = line[At(i)]
      BY <3>1, <3>2
    <3>4. At(i) \in 1 .. A + B + C /\ At(i) > A + B
      BY <1>1, <2>2, <3>1
    <3> QED BY <3>3, <3>4
  <2> QED BY <2>1, <2>2
<1>6. \A i, j \in 1 .. A + C : i < j => At(i) < At(j)
  BY <1>1
<1>7. Ordered(short)
  <2> SUFFICES ASSUME NEW i \in 1 .. A + C, NEW j \in 1 .. A + C, i < j
               PROVE  short[i].n < short[j].n
    BY <1>3 DEF Ordered
  <2>1. At(i) \in 1 .. A + B + C /\ At(j) \in 1 .. A + B + C /\ At(i) < At(j)
    BY <1>5, <1>6
  <2>2. line[At(i)].n < line[At(j)].n
    BY <1>2, <1>4, <2>1 DEF Ordered
  <2> QED BY <1>5, <2>2
<1>8. \A i \in 1 .. A + B + C :
        \/ \E j \in 1 .. A + C : i = At(j)
        \/ \E j \in 1 .. B : i = A + j
  <2> SUFFICES ASSUME NEW i \in 1 .. A + B + C
               PROVE  \/ \E j \in 1 .. A + C : i = At(j)
                      \/ \E j \in 1 .. B : i = A + j
    OBVIOUS
  <2>1. CASE i <= A
    <3>1. i \in 1 .. A + C /\ At(i) = i
      BY <1>1, <2>1
    <3> QED BY <3>1
  <2>2. CASE A < i /\ i <= A + B
    <3>1. i - A \in 1 .. B /\ i = A + (i - A)
      BY <1>1, <2>2
    <3> QED BY <3>1
  <2>3. CASE A + B < i
    <3>1. i - B \in 1 .. A + C /\ At(i - B) = i
      BY <1>1, <2>3
    <3> QED BY <3>1
  <2> QED BY <1>1, <2>1, <2>2, <2>3
<1> HIDE DEF At
<1>9. Range(line) = Range(short) \cup Range(b)
  <2>1. \A x : x \in Range(line) <=> \E i \in 1 .. A + B + C : x = line[i]
    BY <1>2, SeqRange
  <2>2. \A x : x \in Range(short) <=> \E i \in 1 .. A + C : x = short[i]
    <3>1. DOMAIN short = 1 .. A + C
      BY <1>3
    <3> QED BY <3>1 DEF Range
  <2>3. \A x : x \in Range(b) <=> \E i \in 1 .. B : x = b[i]
    BY SeqRange DEF B
  <2>4. \A i \in 1 .. B : A + i \in 1 .. A + B + C
    BY <1>1
  <2>5. ASSUME NEW x \in Range(line) PROVE x \in Range(short) \cup Range(b)
    <3>1. PICK i \in 1 .. A + B + C : x = line[i]
      BY <2>1
    <3>2. CASE \E j \in 1 .. A + C : i = At(j)
      BY <1>5, <2>2, <3>1, <3>2
    <3>3. CASE \E j \in 1 .. B : i = A + j
      BY <1>2, <2>3, <3>1, <3>3
    <3> QED BY <1>8, <3>2, <3>3
  <2>6. ASSUME NEW x \in Range(short) PROVE x \in Range(line)
    BY <1>5, <2>1, <2>2
  <2>7. ASSUME NEW x \in Range(b) PROVE x \in Range(line)
    <3>1. PICK i \in 1 .. B : x = b[i]
      BY <2>3
    <3> QED BY <1>2, <2>1, <2>4, <3>1
  <2> QED BY <2>5, <2>6, <2>7
<1>10. IsFiniteSet(Range(b)) /\ Cardinality(Range(b)) = B
  <2>1. \A i, j \in 1 .. B : b[i] = b[j] => i = j
    <3> SUFFICES ASSUME NEW i \in 1 .. B, NEW j \in 1 .. B, i < j PROVE b[i] # b[j]
      BY <1>1
    <3>1. A + i \in 1 .. A + B + C /\ A + j \in 1 .. A + B + C /\ A + i < A + j
      BY <1>1
    <3>2. line[A + i].n < line[A + j].n
      BY <1>2, <1>4, <3>1 DEF Ordered
    <3>3. line[A + i] \in Messages
      BY <1>2, <3>1
    <3> QED BY <1>2, <3>2, <3>3 DEF Messages
  <2>2. b \in Bijection(1 .. B, Range(b))
    <3>1. DOMAIN b = 1 .. B /\ b = [i \in 1 .. B |-> b[i]]
      BY SeqRange DEF B
    <3>2. /\ \A i \in 1 .. B : b[i] \in Range(b)
          /\ \A x \in Range(b) : \E i \in 1 .. B : b[i] = x
      BY <3>1 DEF Range
    <3> HIDE DEF B
    <3>3. b \in [1 .. B -> Range(b)]
      BY <3>1, <3>2
    <3>4. IsInjective(b)
      BY <2>1, <3>1 DEF IsInjective
    <3> QED BY <3>2, <3>3, <3>4 DEF Bijection, Injection, Surjection
  <2>3. ExistsBijection(1 .. B, Range(b))
    BY <2>2 DEF ExistsBijection
  <2>4. IsFiniteSet(1 .. B) /\ Cardinality(1 .. B) = B
    BY <1>1, FS_Interval
  <2> QED BY <2>3, <2>4, FS_Bijection
<1>11. \A x \in Range(b) : \E i \in 1 .. B : x = line[A + i] /\ A + i \in 1 .. A + B + C
  <2> SUFFICES ASSUME NEW x \in Range(b)
               PROVE  \E i \in 1 .. B : x = line[A + i] /\ A + i \in 1 .. A + B + C
    OBVIOUS
  <2>1. PICK i \in 1 .. B : x = b[i]
    BY SeqRange DEF B
  <2>2. x = line[A + i] /\ A + i \in 1 .. A + B + C
    BY <1>1, <1>2, <2>1
  <2> QED BY <2>2
<1>12. Cardinality(gone \cup Range(b)) = Cardinality(gone) + B /\ IsFiniteSet(gone \cup Range(b))
  <2>1. gone \cap Range(b) = {}
    BY <1>2, <1>4, <1>11
  <2>2. IsFiniteSet(gone \cup Range(b))
        /\ Cardinality(gone \cup Range(b)) = Cardinality(gone) + Cardinality(Range(b))
                                               - Cardinality(gone \cap Range(b))
    BY <1>4, <1>10, FS_Union
  <2>3. Cardinality(gone \cap Range(b)) = 0
    BY <2>1, FS_EmptySet
  <2>4. Cardinality(gone) \in Nat
    BY <1>4, FS_CardinalityType
  <2> QED BY <1>1, <1>10, <2>2, <2>3, <2>4
<1>13. Len(short) + Cardinality(gone \cup Range(b)) = n
  BY <1>1, <1>2, <1>3, <1>4, <1>12, FS_CardinalityType
<1>14. {x.n : x \in Range(short) \cup (gone \cup Range(b))} = 1 .. n
  <2>1. Range(short) \cup (gone \cup Range(b)) = Range(line) \cup gone
    BY <1>9
  <2> QED BY <1>4, <2>1
<1>15. ASSUME NEW x \in gone \cup Range(b), NEW i \in 1 .. Len(short)
       PROVE  short[i].n # x.n
  <2>1. i \in 1 .. A + C
    BY <1>3
  <2>2. CASE x \in gone
    <3>1. At(i) \in 1 .. Len(line) /\ short[i] = line[At(i)]
      BY <1>2, <1>5, <2>1
    <3> QED BY <1>4, <2>2, <3>1
  <2>3. CASE x \in Range(b)
    <3>1. PICK j \in 1 .. B : x = line[A + j] /\ A + j \in 1 .. A + B + C
      BY <1>11, <2>3
    <3>2. At(i) \in 1 .. A + B + C /\ short[i] = line[At(i)] /\ (At(i) < A + j \/ A + j < At(i))
      <4>1. /\ At(i) \in 1 .. A + B + C /\ short[i] = line[At(i)]
            /\ At(i) <= A \/ At(i) > A + B
        BY <1>5, <2>1
      <4> HIDE DEF At
      <4> QED BY <1>1, <4>1
    <3>3. short[i].n < x.n \/ x.n < short[i].n
      BY <1>2, <1>4, <3>1, <3>2 DEF Ordered
    <3>4. short[i].n \in Nat /\ x.n \in Nat
      <4>1. line[At(i)] \in Messages /\ line[A + j] \in Messages
        BY <1>2, <3>1, <3>2
      <4> QED BY <3>1, <3>2, <4>1 DEF Messages
    <3> QED BY <3>3, <3>4
  <2> QED BY <2>2, <2>3
<1>16. gone \cup Range(b) \subseteq Messages
  BY <1>4, SeqRange
<1> QED BY <1>3, <1>7, <1>12, <1>13, <1>14, <1>15, <1>16 DEF Account, short

-----------------------------------------------------------------------------
(* The invariant of the hardware targets.                                  *)

Line == returned \o queue \o socket
Gone == passedBy \cup cleared
Ahead == queue \o socket

Lines ==
  /\ link \in {"can", "udp"} /\ now \in Nat /\ arrived \in Nat
  /\ returned \in Seq(Messages) /\ queue \in Seq(Messages) /\ socket \in Seq(Messages)

\* On CAN nothing is queued in the target, on UDP everything is for the host, and
\* a poll looks at the socket only when its own queue has nothing for it.
Sides ==
  /\ link = "can" => queue = <<>> /\ cleared = {} /\ pc # "look"
  /\ link = "udp" => /\ passedBy = {}
                     /\ \A i \in 1 .. Len(queue) : queue[i].key = Host
                     /\ \A i \in 1 .. Len(socket) : socket[i].key = Host
                     /\ pc = "recv" => \A i \in 1 .. Len(queue) : queue[i].key # asked

\* A message has at least one turn left for each that waits before it.
Turns(ahead, left, n) ==
  /\ left \in Seq(Int) /\ Len(left) = n
  /\ \A i \in 1 .. Len(ahead) : ahead[i].n \in 1 .. n /\ left[ahead[i].n] >= i - 1

HardwareInv ==
  /\ Lines /\ Sides
  /\ Account(Line, Gone, arrived)
  /\ Turns(Ahead, turns, arrived)

LEMMA AheadType ==
  ASSUME Lines
  PROVE  Ahead \in Seq(Messages) /\ Line \in Seq(Messages)
BY ConcatProperties DEF Lines, Ahead, Line

LEMMA Regroup ==
  ASSUME NEW s \in Seq(Messages), NEW t \in Seq(Messages), NEW u \in Seq(Messages)
  PROVE  s \o t \o u = s \o (t \o u)
BY ConcatAssociative

\* Moving the head of one sequence behind another changes nothing.
LEMMA MoveHead ==
  ASSUME NEW s \in Seq(Messages), NEW t \in Seq(Messages), t # <<>>
  PROVE  Append(s, Head(t)) \o Tail(t) = s \o t
<1> DEFINE x == Append(s, Head(t))
           y == Tail(t)
<1>1. /\ Head(t) = t[1] /\ Head(t) \in Messages /\ y \in Seq(Messages)
      /\ Len(t) \in Nat \ {0} /\ Len(y) = Len(t) - 1
      /\ \A i \in 1 .. Len(t) - 1 : y[i] = t[i + 1]
  BY FrontFacts
<1>2. /\ x \in Seq(Messages) /\ Len(s) \in Nat /\ Len(x) = Len(s) + 1 /\ x[Len(s) + 1] = t[1]
      /\ \A i \in 1 .. Len(s) : x[i] = s[i]
  BY <1>1, BackFacts
<1> HIDE DEF x, y
<1>3. /\ x \o y \in Seq(Messages) /\ Len(x \o y) = Len(s) + Len(t)
      /\ \A i \in 1 .. Len(s) + Len(t) :
           (x \o y)[i] = IF i <= Len(s) + 1 THEN x[i] ELSE y[i - (Len(s) + 1)]
  <2>1. /\ x \o y \in Seq(Messages) /\ Len(x \o y) = Len(x) + Len(y)
        /\ \A i \in 1 .. Len(x) + Len(y) :
             (x \o y)[i] = IF i <= Len(x) THEN x[i] ELSE y[i - Len(x)]
    BY <1>1, <1>2, ConcatProperties
  <2>2. Len(x) + Len(y) = Len(s) + Len(t)
    BY <1>1, <1>2
  <2> QED BY <1>2, <2>1, <2>2
<1>4. /\ s \o t \in Seq(Messages) /\ Len(s \o t) = Len(s) + Len(t)
      /\ \A i \in 1 .. Len(s) + Len(t) :
           (s \o t)[i] = IF i <= Len(s) THEN s[i] ELSE t[i - Len(s)]
  BY ConcatProperties
<1>5. ASSUME NEW i \in 1 .. Len(s) + Len(t)
      PROVE  (x \o y)[i] = (s \o t)[i]
  <2>1. CASE i <= Len(s)
    BY <1>2, <1>3, <1>4, <2>1
  <2>2. CASE i = Len(s) + 1
    BY <1>1, <1>2, <1>3, <1>4, <2>2
  <2>3. CASE i > Len(s) + 1
    <3>1. i - (Len(s) + 1) \in 1 .. Len(t) - 1 /\ i - (Len(s) + 1) + 1 = i - Len(s)
      BY <1>1, <1>2, <2>3
    <3>2. (x \o y)[i] = y[i - (Len(s) + 1)] /\ (s \o t)[i] = t[i - Len(s)]
      BY <1>1, <1>2, <1>3, <1>4, <2>3
    <3> QED BY <1>1, <3>1, <3>2
  <2> QED BY <1>1, <1>2, <2>1, <2>2, <2>3
<1>6. x \o y = s \o t
  BY <1>3, <1>4, <1>5, SeqEqual
<1> QED BY <1>6 DEF x, y

\* The messages ahead move up by one while each uses at most one turn.
LEMMA TurnsUsed ==
  ASSUME NEW ahead \in Seq(Messages), ahead # <<>>, NEW left, NEW later, NEW n \in Nat,
         NEW used, Turns(ahead, left, n),
         later = [k \in DOMAIN left |-> IF k \in used THEN left[k] - 1 ELSE left[k]]
  PROVE  Turns(Tail(ahead), later, n)
<1>1. left \in Seq(Int) /\ Len(left) = n
      /\ \A i \in 1 .. Len(ahead) : ahead[i].n \in 1 .. n /\ left[ahead[i].n] >= i - 1
  BY DEF Turns
<1>2. DOMAIN left = 1 .. n /\ \A k \in 1 .. n : left[k] \in Int
  BY <1>1
<1>3. \A k \in 1 .. n : later[k] \in Int /\ later[k] >= left[k] - 1
  BY <1>2
<1>4. later \in Seq(Int) /\ Len(later) = n
  <2>1. later \in [1 .. n -> Int]
    BY <1>2, <1>3
  <2> QED BY <2>1
<1>5. /\ Len(ahead) \in Nat \ {0} /\ Len(Tail(ahead)) = Len(ahead) - 1
      /\ \A i \in 1 .. Len(ahead) - 1 : Tail(ahead)[i] = ahead[i + 1]
  BY FrontFacts
<1>6. ASSUME NEW i \in 1 .. Len(Tail(ahead))
      PROVE  Tail(ahead)[i].n \in 1 .. n /\ later[Tail(ahead)[i].n] >= i - 1
  <2>1. i + 1 \in 1 .. Len(ahead) /\ Tail(ahead)[i] = ahead[i + 1]
    BY <1>5
  <2>2. ahead[i + 1].n \in 1 .. n /\ left[ahead[i + 1].n] >= i
    BY <1>1, <2>1
  <2>3. left[ahead[i + 1].n] \in Int /\ later[ahead[i + 1].n] \in Int
        /\ later[ahead[i + 1].n] >= left[ahead[i + 1].n] - 1
    BY <1>2, <1>3, <2>2
  <2> QED BY <2>1, <2>2, <2>3
<1> QED BY <1>4, <1>6 DEF Turns

-----------------------------------------------------------------------------
(* What the actions of the hardware targets keep.                          *)

LEMMA QuietKeeps ==
  ASSUME HardwareInv,
         \/ Hardware!Elapse \/ Hardware!LookTooLate \/ Hardware!LookFurther \/ Hardware!WakeUp
         \/ (\E k \in Keys : Hardware!Poll(k)) \/ (\E d \in Waits : Hardware!Wait(d))
         \/ UNCHANGED Hardware!vars
  PROVE  HardwareInv'
<1>1. UNCHANGED <<link, socket, queue, arrived, returned, passedBy, cleared, turns>>
  BY DEF Hardware!Elapse, Hardware!LookTooLate, Hardware!LookFurther, Hardware!WakeUp,
         Hardware!Poll, Hardware!Wait, Hardware!vars, Hardware!history
<1>2. now' \in Nat
  BY DEF Hardware!Elapse, Hardware!LookTooLate, Hardware!LookFurther, Hardware!WakeUp,
         Hardware!Poll, Hardware!Wait, Hardware!vars, HardwareInv, Lines
<1>3. Lines' /\ Account(Line, Gone, arrived)' /\ Turns(Ahead, turns, arrived)'
  BY <1>1, <1>2 DEF HardwareInv, Lines, Line, Gone, Ahead
<1>4. Sides'
  <2>1. CASE \/ Hardware!Elapse \/ UNCHANGED Hardware!vars
             \/ Hardware!LookTooLate \/ Hardware!WakeUp \/ \E d \in Waits : Hardware!Wait(d)
    <3>1. /\ pc' = pc \/ pc' \in {"idle", "sleep"}
          /\ asked' = asked
      BY <2>1 DEF Hardware!Elapse, Hardware!LookTooLate, Hardware!WakeUp, Hardware!Wait,
                  Hardware!vars, Hardware!call
    <3> QED BY <1>1, <3>1 DEF HardwareInv, Sides
  <2>2. CASE Hardware!LookFurther
    <3>1. pc = "look" /\ pc' = "recv" /\ asked' = asked
          /\ \A m \in Hardware!Range(queue) : m.key # asked
      BY <2>2 DEF Hardware!LookFurther, Hardware!NoneQueued
    <3>2. \A i \in 1 .. Len(queue) : queue[i].key # asked
      BY <3>1 DEF Hardware!Range, HardwareInv, Lines
    <3> QED BY <1>1, <3>1, <3>2 DEF HardwareInv, Sides
  <2>3. CASE \E k \in Keys : Hardware!Poll(k)
    <3>1. pc' = IF link = "can" THEN "recv" ELSE "look"
      BY <2>3 DEF Hardware!Poll
    <3> QED BY <1>1, <3>1 DEF HardwareInv, Sides
  <2> QED BY <2>1, <2>2, <2>3
<1> QED BY <1>3, <1>4 DEF HardwareInv

LEMMA ArriveKeeps ==
  ASSUME HardwareInv, NEW k \in Keys, Hardware!Arrive(k)
  PROVE  HardwareInv'
<1> DEFINE m == [n |-> arrived + 1, key |-> k, at |-> now]
<1>1. /\ link = "udp" => k = Host
      /\ arrived' = arrived + 1 /\ socket' = Append(socket, m)
      /\ turns' = Append(turns, Len(queue) + Len(socket))
      /\ UNCHANGED <<link, now, pc, asked, queue, returned, passedBy, cleared>>
  BY DEF Hardware!Arrive, Hardware!call
<1>2. Lines /\ m \in Messages /\ m.n = arrived + 1 /\ m.key = k
  BY DEF HardwareInv, Lines, Messages
<1> HIDE DEF m
<1>3. /\ socket' \in Seq(Messages) /\ Len(socket') = Len(socket) + 1 /\ Len(socket) \in Nat
      /\ \A i \in 1 .. Len(socket) : socket'[i] = socket[i]
      /\ socket'[Len(socket) + 1] = m
  BY <1>1, <1>2, BackFacts DEF Lines
<1>4. Lines'
  BY <1>1, <1>2, <1>3 DEF Lines
<1>5. Sides'
  <2>1. ASSUME link = "udp", NEW i \in 1 .. Len(socket')
        PROVE  socket'[i].key = Host
    <3>1. CASE i = Len(socket) + 1
      BY <1>1, <1>2, <1>3, <2>1, <3>1
    <3>2. CASE i # Len(socket) + 1
      <4>1. i \in 1 .. Len(socket)
        BY <1>3, <3>2
      <4> QED BY <1>3, <2>1, <4>1 DEF HardwareInv, Sides
    <3> QED BY <3>1, <3>2
  <2> QED BY <1>1, <2>1 DEF HardwareInv, Sides
<1>6. ASSUME NEW s \in Seq(Messages)
      PROVE  s \o Append(socket, m) = Append(s \o socket, m)
  BY <1>2, <1>6 DEF Lines
<1>7. Line' = Append(Line, m) /\ Ahead' = Append(Ahead, m)
  <2>1. returned \o queue \in Seq(Messages) /\ queue \in Seq(Messages)
    BY <1>2, ConcatProperties DEF Lines
  <2> QED BY <1>1, <1>6, <2>1 DEF Line, Ahead
<1>8. Account(Line, Gone, arrived)'
  <2>1. Account(Append(Line, m), Gone, arrived + 1)
    BY <1>2, AccountArrives DEF HardwareInv, Lines
  <2>2. Gone' = Gone
    BY <1>1 DEF Gone
  <2> QED BY <1>1, <1>7, <2>1, <2>2
<1>9. Turns(Ahead, turns, arrived)'
  <2> DEFINE place == Len(queue) + Len(socket)
             later == Append(turns, place)
  <2>1. /\ turns \in Seq(Int) /\ Len(turns) = arrived /\ arrived \in Nat
        /\ \A i \in 1 .. Len(Ahead) : Ahead[i].n \in 1 .. arrived /\ turns[Ahead[i].n] >= i - 1
    BY <1>2 DEF HardwareInv, Turns, Lines
  <2>2. Ahead \in Seq(Messages) /\ Len(Ahead) = place /\ place \in Nat
    BY <1>2, ConcatProperties DEF Lines, Ahead
  <2> HIDE DEF place
  <2>3. /\ Len(Ahead') = place + 1 /\ Ahead'[place + 1] = m
        /\ \A i \in 1 .. place : Ahead'[i] = Ahead[i]
    BY <1>2, <1>7, <2>2, BackFacts
  <2>4. /\ later \in Seq(Int) /\ Len(later) = arrived + 1 /\ later[arrived + 1] = place
        /\ \A i \in 1 .. arrived : later[i] = turns[i]
    <3>1. place \in Int
      BY <2>2
    <3> QED BY <2>1, <3>1, BackFacts
  <2> HIDE DEF later
  <2>5. ASSUME NEW i \in 1 .. Len(Ahead')
        PROVE  Ahead'[i].n \in 1 .. arrived + 1 /\ later[Ahead'[i].n] >= i - 1
    <3>1. CASE i = place + 1
      BY <1>2, <2>1, <2>2, <2>3, <2>4, <3>1
    <3>2. CASE i # place + 1
      <4>1. i \in 1 .. place
        BY <2>2, <2>3, <3>2
      <4>2. Ahead[i].n \in 1 .. arrived /\ turns[Ahead[i].n] >= i - 1
        BY <2>1, <2>2, <4>1
      <4> QED BY <2>1, <2>3, <2>4, <4>1, <4>2
    <3> QED BY <3>1, <3>2
  <2>6. turns' = later
    BY <1>1 DEF later, place
  <2>7. \A i \in 1 .. Len(Ahead') :
          Ahead'[i].n \in 1 .. arrived' /\ turns'[Ahead'[i].n] >= i - 1
    BY <1>1, <2>5, <2>6
  <2> QED BY <1>1, <2>4, <2>6, <2>7 DEF Turns
<1> QED BY <1>4, <1>5, <1>8, <1>9 DEF HardwareInv

LEMMA RecvFrameKeeps ==
  ASSUME HardwareInv, Hardware!RecvFrame
  PROVE  HardwareInv'
<1>1. /\ link = "can" /\ socket # <<>> /\ socket' = Tail(socket) /\ pc' = "idle"
      /\ turns' = [k \in DOMAIN turns |->
                     IF k \in Hardware!Waiting THEN turns[k] - 1 ELSE turns[k]]
      /\ UNCHANGED <<link, now, asked, queue, arrived, cleared>>
      /\ \/ returned' = Append(returned, Head(socket)) /\ passedBy' = passedBy
         \/ returned' = returned /\ passedBy' = passedBy \cup {Head(socket)}
  BY DEF Hardware!RecvFrame, Hardware!Return, Hardware!NextTurn
<1>2. Lines /\ queue = <<>> /\ cleared = {}
  BY <1>1 DEF HardwareInv, Sides
<1>3. /\ Head(socket) \in Messages /\ Tail(socket) \in Seq(Messages)
      /\ returned \in Seq(Messages) /\ socket \in Seq(Messages)
  BY <1>1, <1>2, FrontFacts DEF Lines
<1>4. Lines'
  <2>1. Append(returned, Head(socket)) \in Seq(Messages)
    BY <1>3, BackFacts
  <2> QED BY <1>1, <1>2, <1>3, <2>1 DEF Lines
<1>5. Sides'
  BY <1>1, <1>2 DEF Sides
<1>6. \A s \in Seq(Messages) : s \o <<>> = s /\ <<>> \o s = s
  BY ConcatEmptySeq
<1>7. Line = returned \o socket /\ Line' = returned' \o socket' /\ Ahead = socket
      /\ Ahead' = socket'
  BY <1>1, <1>2, <1>3, <1>4, <1>6 DEF Line, Ahead, Lines
<1>8. Account(Line, Gone, arrived)'
  <2>1. CASE returned' = Append(returned, Head(socket)) /\ passedBy' = passedBy
    <3>1. Line' = Line
      BY <1>1, <1>3, <1>7, <2>1, MoveHead
    <3>2. Gone' = Gone
      BY <1>1, <2>1 DEF Gone
    <3> QED BY <1>1, <3>1, <3>2 DEF HardwareInv
  <2>2. CASE returned' = returned /\ passedBy' = passedBy \cup {Head(socket)}
    <3> DEFINE b == Append(<<>>, Head(socket))
    <3>1. b \in Seq(Messages) /\ b \o Tail(socket) = socket
      <4>1. <<>> \in Seq(Messages)
        OBVIOUS
      <4>2. b \o Tail(socket) = <<>> \o socket
        BY <1>1, <1>3, <4>1, MoveHead
      <4> QED BY <1>3, <1>6, <4>1, <4>2, BackFacts
    <3>2. Range(b) = {Head(socket)}
      BY DEF Range
    <3> HIDE DEF b
    <3>3. Line = returned \o b \o Tail(socket)
      <4>1. returned \o b \o Tail(socket) = returned \o (b \o Tail(socket))
        BY <1>3, <3>1, Regroup, Zenon
      <4> QED BY <1>7, <3>1, <4>1
    <3>4. Account(returned \o b \o Tail(socket), Gone, arrived) /\ arrived \in Nat
      BY <1>2, <3>3 DEF HardwareInv, Lines
    <3>5. Account(returned \o Tail(socket), Gone \cup Range(b), arrived)
      BY <1>3, <3>1, <3>4, AccountLoses
    <3>6. Gone' = Gone \cup Range(b)
      BY <1>1, <2>2, <3>2 DEF Gone
    <3> QED BY <1>1, <1>7, <2>2, <3>5, <3>6
  <2> QED BY <1>1, <2>1, <2>2
<1>9. Turns(Ahead, turns, arrived)'
  <2>1. Turns(socket, turns, arrived) /\ arrived \in Nat
    BY <1>2, <1>7 DEF HardwareInv, Lines
  <2>2. Turns(Tail(socket), turns', arrived)
    BY <1>1, <1>3, <2>1, TurnsUsed
  <2> QED BY <1>1, <1>7, <2>2
<1> QED BY <1>4, <1>5, <1>8, <1>9 DEF HardwareInv

LEMMA TakeQueuedKeeps ==
  ASSUME HardwareInv, Hardware!TakeQueued
  PROVE  HardwareInv'
<1>1. /\ pc = "look" /\ pc' = "idle"
      /\ turns' = [k \in DOMAIN turns |->
                     IF k \in Hardware!Waiting THEN turns[k] - 1 ELSE turns[k]]
      /\ UNCHANGED <<link, now, asked, socket, arrived, passedBy, cleared>>
  BY DEF Hardware!TakeQueued, Hardware!Return, Hardware!NextTurn
<1>2. PICK i \in DOMAIN queue :
        /\ queue[i].key = asked
        /\ \A j \in 1 .. i - 1 : queue[j].key # asked
        /\ returned' = Append(returned, queue[i])
        /\ queue' = Hardware!RemoveAt(queue, i)
  BY DEF Hardware!TakeQueued, Hardware!Return
<1>3. Lines /\ link = "udp" /\ \A j \in 1 .. Len(queue) : queue[j].key = Host
  BY <1>1 DEF HardwareInv, Lines, Sides
<1>4. i = 1 /\ queue # <<>> /\ Len(queue) \in Nat
  <2>1. i \in 1 .. Len(queue)
    BY <1>2, <1>3 DEF Lines
  <2>2. 1 \in 1 .. Len(queue) /\ queue[1].key = queue[i].key
    BY <1>3, <2>1
  <2>3. ~(1 \in 1 .. i - 1)
    BY <1>2, <2>2
  <2> QED BY <1>3, <2>1, <2>3 DEF Lines
<1>5. queue' = Tail(queue) /\ returned' = Append(returned, Head(queue))
  <2>1. SubSeq(queue, 1, 1 - 1) = <<>>
    BY SubSeqEmpty
  <2>2. SubSeq(queue, 1 + 1, Len(queue)) = Tail(queue)
    BY <1>3, <1>4, TailIsSubSeq DEF Lines
  <2>3. <<>> \o Tail(queue) = Tail(queue)
    BY <1>3, <1>4, FrontFacts, ConcatEmptySeq DEF Lines
  <2>4. queue' = Tail(queue)
    BY <1>2, <1>4, <2>1, <2>2, <2>3 DEF Hardware!RemoveAt
  <2> QED BY <1>2, <1>3, <1>4, <2>4, FrontFacts DEF Lines
<1>6. /\ Head(queue) \in Messages /\ Tail(queue) \in Seq(Messages)
      /\ DOMAIN Tail(queue) = 1 .. Len(queue) - 1 /\ Len(Tail(queue)) = Len(queue) - 1
      /\ \A j \in 1 .. Len(queue) - 1 : Tail(queue)[j] = queue[j + 1]
  BY <1>3, <1>4, FrontFacts DEF Lines
<1>7. Lines'
  <2>1. Append(returned, Head(queue)) \in Seq(Messages)
    BY <1>3, <1>6, BackFacts DEF Lines
  <2> QED BY <1>1, <1>3, <1>5, <1>6, <2>1 DEF Lines
<1>8. Sides'
  <2>1. \A j \in 1 .. Len(queue') : queue'[j].key = Host
    BY <1>3, <1>4, <1>5, <1>6
  <2> QED BY <1>1, <1>3, <2>1 DEF HardwareInv, Sides
<1>9. Account(Line, Gone, arrived)'
  <2>1. Line' = Line
    BY <1>1, <1>3, <1>4, <1>5, MoveHead DEF Line, Lines
  <2>2. Gone' = Gone
    BY <1>1 DEF Gone
  <2> QED BY <1>1, <2>1, <2>2 DEF HardwareInv
<1>10. Turns(Ahead, turns, arrived)'
  <2>1. Ahead # <<>> /\ Tail(Ahead) = Tail(queue) \o socket
    <3> DEFINE b == Append(<<>>, Head(queue))
    <3>1. <<>> \in Seq(Messages) /\ b \in Seq(Messages) /\ Len(b) = 1
      BY <1>6, BackFacts
    <3>2. b \o Tail(queue) = queue
      <4>1. b \o Tail(queue) = <<>> \o queue
        BY <1>3, <1>4, <3>1, MoveHead DEF Lines
      <4> QED BY <1>3, <4>1, ConcatEmptySeq DEF Lines
    <3> HIDE DEF b
    <3> DEFINE r == Tail(queue) \o socket
    <3>3. r \in Seq(Messages) /\ Ahead = b \o r
      <4>1. socket \in Seq(Messages) /\ Tail(queue) \in Seq(Messages)
        BY <1>3, <1>6 DEF Lines
      <4>2. r \in Seq(Messages)
        BY <4>1, ConcatProperties
      <4>3. b \o Tail(queue) \o socket = b \o r
        BY <3>1, <4>1, Regroup, Zenon
      <4> QED BY <3>2, <4>2, <4>3 DEF Ahead
    <3> HIDE DEF r
    <3>4. /\ Ahead \in Seq(Messages) /\ Len(Ahead) = 1 + Len(r) /\ Len(r) \in Nat
          /\ \A j \in 1 .. 1 + Len(r) : Ahead[j] = IF j <= 1 THEN b[j] ELSE r[j - 1]
      <4>1. /\ b \o r \in Seq(Messages) /\ Len(b \o r) = Len(b) + Len(r)
            /\ \A j \in 1 .. Len(b) + Len(r) :
                 (b \o r)[j] = IF j <= Len(b) THEN b[j] ELSE r[j - Len(b)]
        BY <3>1, <3>3, ConcatProperties, Zenon
      <4>2. Len(r) \in Nat
        BY <3>3
      <4> QED BY <3>1, <3>3, <4>1, <4>2
    <3>5. Ahead # <<>>
      BY <3>4
    <3>6. /\ Tail(Ahead) \in Seq(Messages) /\ Len(Tail(Ahead)) = Len(r)
          /\ \A j \in 1 .. Len(r) : Tail(Ahead)[j] = Ahead[j + 1]
      BY <3>4, <3>5, FrontFacts
    <3>7. \A j \in 1 .. Len(r) : Tail(Ahead)[j] = r[j]
      BY <3>4, <3>6
    <3>8. Tail(Ahead) = r
      BY <3>3, <3>6, <3>7, SeqEqual
    <3> QED BY <3>5, <3>8 DEF r
  <2>2. Ahead \in Seq(Messages) /\ arrived \in Nat /\ Turns(Ahead, turns, arrived)
    BY <1>3, AheadType DEF HardwareInv, Lines
  <2>3. Turns(Tail(Ahead), turns', arrived)
    BY <1>1, <2>1, <2>2, TurnsUsed
  <2>4. Ahead' = Tail(Ahead)
    BY <1>1, <1>5, <2>1 DEF Ahead
  <2> QED BY <1>1, <2>3, <2>4
<1> QED BY <1>7, <1>8, <1>9, <1>10 DEF HardwareInv

LEMMA RecvDatagramKeeps ==
  ASSUME HardwareInv, Hardware!RecvDatagram
  PROVE  HardwareInv'
<1>1. /\ link = "udp" /\ socket # <<>> /\ socket' = Tail(socket)
      /\ queue' = Append(queue, Head(socket)) /\ pc' = "look"
      /\ UNCHANGED <<link, now, asked, arrived, returned, passedBy, cleared, turns>>
  BY DEF Hardware!RecvDatagram, Hardware!history
<1>2. Lines
  BY DEF HardwareInv
<1>3. /\ Head(socket) = socket[1] /\ Head(socket) \in Messages /\ Tail(socket) \in Seq(Messages)
      /\ Len(socket) \in Nat \ {0} /\ Len(Tail(socket)) = Len(socket) - 1
      /\ \A j \in 1 .. Len(socket) - 1 : Tail(socket)[j] = socket[j + 1]
  BY <1>1, <1>2, FrontFacts DEF Lines
<1>4. /\ queue' \in Seq(Messages) /\ Len(queue') = Len(queue) + 1 /\ Len(queue) \in Nat
      /\ \A j \in 1 .. Len(queue) : queue'[j] = queue[j]
      /\ queue'[Len(queue) + 1] = Head(socket)
  BY <1>1, <1>2, <1>3, BackFacts DEF Lines
<1>5. Lines'
  BY <1>1, <1>2, <1>3, <1>4 DEF Lines
<1>6. Sides'
  <2>1. \A j \in 1 .. Len(socket) : socket[j].key = Host
    BY <1>1 DEF HardwareInv, Sides
  <2>2. \A j \in 1 .. Len(socket') : socket'[j].key = Host
    BY <1>1, <1>3, <2>1
  <2>3. Head(socket).key = Host
    BY <1>3, <2>1
  <2>4. ASSUME NEW j \in 1 .. Len(queue') PROVE queue'[j].key = Host
    <3>1. CASE j = Len(queue) + 1
      BY <1>4, <2>3, <3>1
    <3>2. CASE j # Len(queue) + 1
      <4>1. j \in 1 .. Len(queue)
        BY <1>4, <3>2
      <4> QED BY <1>1, <1>4, <4>1 DEF HardwareInv, Sides
    <3> QED BY <3>1, <3>2
  <2> QED BY <1>1, <2>2, <2>4 DEF HardwareInv, Sides
<1>7. queue' \o socket' = queue \o socket
  BY <1>1, <1>2, MoveHead DEF Lines
<1>8. Line' = Line /\ Ahead' = Ahead
  <2>1. returned \o queue \o socket = returned \o (queue \o socket)
    BY <1>2, ConcatAssociative DEF Lines
  <2>2. returned \o queue' \o socket' = returned \o (queue' \o socket')
    <3>1. returned \in Seq(Messages) /\ queue' \in Seq(Messages) /\ socket' \in Seq(Messages)
      BY <1>1, <1>2, <1>3, <1>4 DEF Lines
    <3> QED BY <3>1, Regroup, Zenon
  <2> QED BY <1>1, <1>7, <2>1, <2>2 DEF Line, Ahead
<1>9. Gone' = Gone
  BY <1>1 DEF Gone
<1>10. Account(Line, Gone, arrived)' /\ Turns(Ahead, turns, arrived)'
  BY <1>1, <1>8, <1>9 DEF HardwareInv
<1> QED BY <1>5, <1>6, <1>10 DEF HardwareInv

LEMMA RecvTimesOutKeeps ==
  ASSUME HardwareInv, Hardware!RecvTimesOut
  PROVE  HardwareInv'
<1>1. /\ pc = "recv" /\ pc' = "idle" /\ socket = <<>>
      /\ turns' = [k \in DOMAIN turns |->
                     IF k \in Hardware!Waiting THEN turns[k] - 1 ELSE turns[k]]
      /\ UNCHANGED <<link, now, asked, socket, queue, arrived, returned, passedBy, cleared>>
  BY DEF Hardware!RecvTimesOut, Hardware!NextTurn
<1>2. Lines
  BY DEF HardwareInv
<1>3. \A m \in Hardware!Range(queue \o socket) : link # "can" /\ m.key # asked
  <2>1. queue \o socket = queue
    BY <1>1, <1>2, ConcatEmptySeq DEF Lines
  <2>2. DOMAIN queue = 1 .. Len(queue)
    BY <1>2 DEF Lines
  <2>3. CASE link = "can"
    <3>1. queue = <<>>
      BY <2>3 DEF HardwareInv, Sides
    <3> QED BY <2>1, <3>1 DEF Hardware!Range
  <2>4. CASE link = "udp"
    BY <1>1, <2>1, <2>2, <2>4 DEF Hardware!Range, HardwareInv, Sides
  <2> QED BY <1>2, <2>3, <2>4 DEF Lines
<1>4. Hardware!Waiting = {}
  BY <1>3 DEF Hardware!Waiting
<1>5. turns' = turns
  <2>1. turns \in Seq(Int)
    BY DEF HardwareInv, Turns
  <2>2. turns = [k \in DOMAIN turns |-> turns[k]]
    BY <2>1
  <2> QED BY <1>1, <1>4, <2>2
<1>6. Account(Line, Gone, arrived)' /\ Turns(Ahead, turns, arrived)'
  BY <1>1, <1>5 DEF HardwareInv, Line, Gone, Ahead
<1> QED BY <1>1, <1>2, <1>6 DEF HardwareInv, Lines, Sides

LEMMA ResetKeeps ==
  ASSUME HardwareInv, Hardware!Reset
  PROVE  HardwareInv'
<1>1. /\ pc = "idle"
      /\ UNCHANGED <<link, now, pc, asked, socket, arrived, returned, passedBy, turns>>
      /\ IF link = "can" THEN UNCHANGED <<queue, cleared>>
         ELSE queue' = <<>> /\ cleared' = cleared \cup Hardware!Range(queue)
  BY DEF Hardware!Reset, Hardware!call
<1>2. Lines
  BY DEF HardwareInv
<1>3. CASE link = "can"
  <2>1. Line' = Line /\ Gone' = Gone /\ Ahead' = Ahead
    BY <1>1, <1>3 DEF Line, Gone, Ahead
  <2>2. Account(Line, Gone, arrived)' /\ Turns(Ahead, turns, arrived)'
    BY <1>1, <2>1 DEF HardwareInv
  <2> QED BY <1>1, <1>3, <2>2 DEF HardwareInv, Lines, Sides
<1>4. CASE link # "can"
  <2>1. queue' = <<>> /\ cleared' = cleared \cup Range(queue)
    BY <1>1, <1>4 DEF Range, Hardware!Range
  <2>2. Lines'
    <3>1. <<>> \in Seq(Messages)
      OBVIOUS
    <3> QED BY <1>1, <1>2, <2>1, <3>1 DEF Lines
  <2>3. Sides'
    BY <1>1, <1>4, <2>1 DEF HardwareInv, Sides
  <2>4. Line' = returned \o socket /\ Ahead' = socket
    BY <1>1, <1>2, <2>1, ConcatEmptySeq DEF Line, Ahead, Lines
  <2>5. Account(Line, Gone, arrived)'
    <3>1. Account(returned \o queue \o socket, Gone, arrived)
      BY DEF HardwareInv, Line
    <3>2. Account(returned \o socket, Gone \cup Range(queue), arrived)
      BY <1>2, <3>1, AccountLoses DEF Lines
    <3>3. Gone' = Gone \cup Range(queue)
      BY <1>1, <2>1 DEF Gone
    <3> QED BY <1>1, <2>4, <3>2, <3>3
  <2>6. Turns(Ahead, turns, arrived)'
    <3>1. turns \in Seq(Int) /\ Len(turns) = arrived
          /\ \A i \in 1 .. Len(Ahead) : Ahead[i].n \in 1 .. arrived /\ turns[Ahead[i].n] >= i - 1
          /\ \A k \in 1 .. arrived : turns[k] \in Int
      BY DEF HardwareInv, Turns
    <3>2. /\ Len(Ahead) = Len(queue) + Len(socket) /\ Len(queue) \in Nat /\ Len(socket) \in Nat
          /\ \A i \in 1 .. Len(queue) + Len(socket) :
               Ahead[i] = IF i <= Len(queue) THEN queue[i] ELSE socket[i - Len(queue)]
      BY <1>2, ConcatProperties DEF Ahead, Lines
    <3>3. ASSUME NEW i \in 1 .. Len(socket)
          PROVE  socket[i].n \in 1 .. arrived /\ turns[socket[i].n] >= i - 1
      <4>1. Len(queue) + i \in 1 .. Len(Ahead) /\ Ahead[Len(queue) + i] = socket[i]
        BY <3>2
      <4>2. socket[i].n \in 1 .. arrived /\ turns[socket[i].n] >= Len(queue) + i - 1
        BY <3>1, <4>1
      <4>3. turns[socket[i].n] \in Int
        BY <3>1, <4>2
      <4> QED BY <3>2, <4>2, <4>3
    <3>4. Turns(socket, turns, arrived)
      BY <3>1, <3>3 DEF Turns
    <3> QED BY <1>1, <2>4, <3>4
  <2> QED BY <2>2, <2>3, <2>5, <2>6 DEF HardwareInv
<1> QED BY <1>3, <1>4

-----------------------------------------------------------------------------
(* The theorems.                                                           *)

RestInv == Types /\ Behind /\ Exact /\ Drained /\ Counted /\ Injected

IInv == (link = "rest" => RestInv) /\ (link # "rest" => HardwareInv)

LEMMA Constants ==
  StepUs \in Nat \ {0} /\ Period \in Nat \ {0} /\ Host \in Keys
BY LiveLinkAssumption

LEMMA AccountStarts == Account(<<>>, {}, 0)
<1>1. Range(<<>>) = {}
  BY DEF Range
<1>2. {x.n : x \in Range(<<>>) \cup {}} = 1 .. 0
  BY <1>1
<1>3. IsFiniteSet({}) /\ Cardinality({}) = 0
  BY FS_EmptySet
<1> DEFINE line == <<>>
<1>4. line \in Seq(Messages) /\ Len(line) = 0
  OBVIOUS
<1>5. {x.n : x \in Range(line) \cup {}} = 1 .. 0
  BY <1>2
<1> HIDE DEF line
<1>6. Ordered(line)
  BY <1>4 DEF Ordered
<1>7. Len(line) + Cardinality({}) = 0
  BY <1>3, <1>4
<1>8. Account(line, {}, 0)
  BY <1>3, <1>4, <1>5, <1>6, <1>7 DEF Account
<1> QED BY <1>8 DEF line

LEMMA InitInv == HardwareInit \/ RestInit => IInv
<1>1. ASSUME RestInit PROVE IInv
  <2>1. link = "rest" /\ Rest!Init
    BY <1>1 DEF RestInit
  <2>2. Types /\ Behind /\ Drained
    <3>1. /\ now = 0 /\ pc = "idle" /\ goal = 0 /\ sim = 0 /\ next = 0 /\ sent = 0
          /\ device = 0 /\ latest = 0
          /\ emitted = <<>> /\ socket = <<>> /\ wire = <<>>
      BY <2>1 DEF Rest!Init
    <3>2. \A S : <<>> \in Seq(S)
      OBVIOUS
    <3>3. Types
      BY <3>1, <3>2 DEF Types
    <3>4. Behind
      BY <3>1, Constants DEF Behind
    <3>5. Drained
      BY <3>1 DEF Drained
    <3> QED BY <3>3, <3>4, <3>5
  <2>3. Exact
    <3>1. sim = 0 * StepUs /\ next = 0 * StepUs /\ next = sent * Period /\ sim = 0 /\ next = 0
      BY <2>1, Constants DEF Rest!Init
    <3> QED BY <3>1, Constants DEF Exact
  <2>4. Counted
    <3>1. DOMAIN wire = {} /\ DOMAIN emitted = {} /\ Len(wire) = 0 /\ Len(emitted) = 0 /\ sent = 0
      BY <2>1 DEF Rest!Init
    <3> QED BY <3>1, NodesAtNone DEF Counted
  <2>5. Injected
    <3>1. wire = <<>> /\ socket = <<>> /\ heard = <<>>
      BY <2>1 DEF Rest!Init
    <3> QED BY <3>1 DEF Injected
  <2> QED BY <2>1, <2>2, <2>3, <2>4, <2>5 DEF IInv, RestInv
<1>2. ASSUME HardwareInit PROVE IInv
  <2>1. /\ link \in {"can", "udp"} /\ now = 0 /\ pc = "idle" /\ socket = <<>> /\ queue = <<>>
        /\ arrived = 0 /\ returned = <<>> /\ passedBy = {} /\ cleared = {} /\ turns = <<>>
    BY <1>2 DEF HardwareInit, Hardware!Init
  <2>2. /\ \A S : <<>> \in Seq(S)
        /\ Len(<<>>) = 0
    OBVIOUS
  <2>3. <<>> \o <<>> = <<>>
    OBVIOUS
  <2>4. Line = <<>> /\ Ahead = <<>> /\ Gone = {}
    BY <2>1, <2>3 DEF Line, Ahead, Gone
  <2>5. Lines /\ Sides
    BY <2>1, <2>2 DEF Lines, Sides
  <2>6. Turns(Ahead, turns, arrived)
    BY <2>1, <2>2, <2>4 DEF Turns
  <2>7. Account(Line, Gone, arrived)
    BY <2>1, <2>4, AccountStarts
  <2>8. link # "rest"
    BY <2>1
  <2> QED BY <2>5, <2>6, <2>7, <2>8 DEF IInv, HardwareInv
<1> QED BY <1>1, <1>2

LEMMA HardwareKept ==
  ASSUME HardwareInv, Hardware!Next \/ UNCHANGED Hardware!vars
  PROVE  HardwareInv'
<1>1. CASE Hardware!Elapse \/ UNCHANGED Hardware!vars
  BY <1>1, QuietKeeps
<1>2. CASE Hardware!Working
  BY <1>2, RecvFrameKeeps, TakeQueuedKeeps, RecvDatagramKeeps, RecvTimesOutKeeps, QuietKeeps
     DEF Hardware!Working
<1>3. CASE Hardware!Reset
  BY <1>3, ResetKeeps
<1>4. CASE \E k \in Keys : Hardware!Arrive(k) \/ Hardware!Poll(k)
  BY <1>4, ArriveKeeps, QuietKeeps
<1>5. CASE \E d \in Waits : Hardware!Wait(d)
  BY <1>5, QuietKeeps
<1> QED BY <1>1, <1>2, <1>3, <1>4, <1>5 DEF Hardware!Next

LEMMA InvKept == IInv /\ [Next]_vars => IInv'
<1> SUFFICES ASSUME IInv, [Next]_vars PROVE IInv'
  OBVIOUS
<1>1. CASE link = "rest"
  <2>1. Rest!Next \/ UNCHANGED Rest!vars
    BY <1>1 DEF Next, OnHardware, OnRest, vars, simulated, Rest!vars
  <2>2. link' = "rest"
    BY <1>1 DEF Next, OnHardware, OnRest, vars
  <2>3. RestInv'
    BY <1>1, <2>1, Constants, TypesKept, BehindKept, ExactKept, DrainedKept,
       CountedKept, InjectedKept
    DEF IInv, RestInv
  <2> QED BY <2>2, <2>3 DEF IInv
<1>2. CASE link # "rest"
  <2>1. Hardware!Next \/ UNCHANGED Hardware!vars
    BY <1>2 DEF Next, OnHardware, OnRest, vars, hardware, Hardware!vars, Hardware!call,
                Hardware!history
  <2>2. HardwareInv'
    BY <1>2, <2>1, HardwareKept DEF IInv
  <2>3. link' # "rest"
    BY <2>2 DEF HardwareInv, Lines
  <2> QED BY <2>2, <2>3 DEF IInv
<1> QED BY <1>1, <1>2

\* The invariant of the three targets, for every number of messages and calls.
THEOREM Invariant == FairSpec => []IInv
BY InitInv, InvKept, PTL DEF FairSpec

\* The simulation of the rest bus never runs ahead of the bus, its frames reach
\* the wire after their time, and however long the host was held up the node has
\* sent one frame for each period begun: a host that catches up omits none.
THEOREM KeepsPace == FairSpec => []Paced
<1>1. IInv => Paced
  <2> SUFFICES ASSUME IInv, link = "rest" PROVE Rest!Paced
    BY DEF Paced
  <2>1. sim < now + StepUs
    BY DEF IInv, RestInv, Behind
  <2>2. ASSUME NEW i \in DOMAIN wire, wire[i].frame.src = "node"
        PROVE  wire[i].at > (wire[i].frame.n - 1) * Period
    <3>1. wire[i] \in Wires
      BY DEF IInv, RestInv, Types
    <3>2. wire[i].frame.n \in Nat /\ wire[i].at \in Nat
      BY <3>1 DEF Wires, Frames
    <3>3. (wire[i].frame.n - 1) * Period \in Int
      BY <3>2, Constants, TimesType
    <3>4. (wire[i].frame.n - 1) * Period < wire[i].at
      BY <2>2 DEF IInv, RestInv, Behind
    <3> QED BY <3>2, <3>3, <3>4
  <2>3. Period % StepUs = 0 => sent = (sim + Period - 1) \div Period
    <3> SUFFICES ASSUME Period % StepUs = 0 PROVE sent = (sim + Period - 1) \div Period
      OBVIOUS
    <3>1. sim \in Nat /\ sent \in Nat
      BY DEF IInv, RestInv, Types
    <3>2. sim <= sent * Period /\ sent * Period < sim + Period
      BY DEF IInv, RestInv, Exact
    <3> QED BY <3>1, <3>2, Constants, RoundedUp
  <2> QED BY <2>1, <2>2, <2>3 DEF Rest!Paced
<1> QED BY <1>1, Invariant, PTL

\* After a call returns, the newest frame the recorder shows of the node is the
\* newest it has sent, or that one's echo is still in the socket.
THEOREM NewestShown == FairSpec => []NewestOnceDrained
<1>1. IInv => NewestOnceDrained
  <2> SUFFICES ASSUME IInv, link = "rest", pc = "idle", latest # sent
               PROVE  \E m \in Rest!Range(socket) : m.src = "node" /\ m.n = sent
    BY DEF NewestOnceDrained, Rest!NewestOnceDrained
  <2>1. emitted = <<>>
    BY DEF IInv, RestInv, Drained
  <2>2. PICK i \in DOMAIN socket : socket[i].src = "node"
    BY <2>1 DEF IInv, RestInv, Drained
  <2>3. PICK j \in i .. Len(socket) : socket[j] = Newest
    BY <2>1, <2>2 DEF IInv, RestInv, Drained
  <2>4. j \in DOMAIN socket
    BY <2>2, <2>3 DEF IInv, RestInv, Types
  <2>5. Newest \in Rest!Range(socket)
    BY <2>3, <2>4 DEF Rest!Range
  <2> QED BY <2>5 DEF Newest
<1> QED BY <1>1, Invariant, PTL

\* On the rest bus every frame of the simulated node goes on the wire once and in
\* order, nothing heard is sent out again, and every frame on the bus, the echoes
\* of the node's own among them, is injected once and in order, or still waits.
THEOREM OnceEachWay == FairSpec => []EveryFrameOnce
<1>1. IInv => EveryFrameOnce
  <2> SUFFICES ASSUME IInv, link = "rest" PROVE Rest!EveryFrameOnce
    BY DEF EveryFrameOnce
  <2>1. Types /\ Counted /\ Injected
    BY DEF IInv, RestInv
  <2>2. \A k : Rest!NodeFrames(k) = Cardinality(NodesAt(wire, k))
    BY DEF Rest!NodeFrames, NodesAt, Rest!Cardinality, Cardinality
  <2>3. heard \o socket = Rest!OnWire
    <3>1. /\ heard \in Seq(Frames) /\ socket \in Seq(Frames) /\ wire \in Seq(Wires)
          /\ Len(heard) \in Nat /\ Len(socket) \in Nat
          /\ Len(heard) + Len(socket) = Len(wire) /\ DOMAIN wire = 1 .. Len(wire)
      BY <2>1 DEF Types, Injected
    <3>2. PICK both : both = heard \o socket
      OBVIOUS
    <3>3. /\ both \in Seq(Frames) /\ Len(both) = Len(wire)
          /\ \A i \in 1 .. Len(wire) :
               both[i] = IF i <= Len(heard) THEN heard[i] ELSE socket[i - Len(heard)]
      BY <3>1, <3>2, ConcatProperties
    <3>4. ASSUME NEW i \in 1 .. Len(wire) PROVE both[i] = wire[i].frame
      <4>1. CASE i <= Len(heard)
        BY <2>1, <3>1, <3>3, <4>1 DEF Injected
      <4>2. CASE ~(i <= Len(heard))
        <5>1. i - Len(heard) \in 1 .. Len(socket) /\ Len(heard) + (i - Len(heard)) = i
          BY <3>1, <4>2
        <5>2. both[i] = socket[i - Len(heard)]
          BY <3>3, <4>2
        <5> QED BY <2>1, <5>1, <5>2 DEF Injected
      <4> QED BY <4>1, <4>2
    <3>5. both = [i \in 1 .. Len(wire) |-> both[i]]
      BY <3>3
    <3> QED BY <3>1, <3>2, <3>4, <3>5 DEF Rest!OnWire
  <2> QED BY <2>1, <2>2, <2>3 DEF Rest!EveryFrameOnce, Counted
<1> QED BY <1>1, Invariant, PTL

\* On the hardware targets every message that arrived is returned once and in
\* order, was taken by a poll for another id, thrown away by a reset, or waits.
THEOREM NothingLost == FairSpec => []EveryMessageInOnePlace
<1>1. IInv => EveryMessageInOnePlace
  <2> SUFFICES ASSUME HardwareInv PROVE Hardware!EveryMessageInOnePlace
    BY DEF IInv, EveryMessageInOnePlace
  <2>1. /\ Line \in Seq(Messages) /\ Ordered(Line) /\ IsFiniteSet(Gone)
        /\ Len(Line) + Cardinality(Gone) = arrived
        /\ {m.n : m \in Range(Line) \cup Gone} = 1 .. arrived
    BY DEF HardwareInv, Account
  <2>2. DOMAIN Line = 1 .. Len(Line) /\ Len(Line) \in Nat
    BY <2>1
  <2>3. \A i, j \in DOMAIN Line : i < j => Line[i].n < Line[j].n
    BY <2>1, <2>2 DEF Ordered
  <2>4. Cardinality(passedBy) + Cardinality(cleared) = Cardinality(Gone)
    <3>1. passedBy = {} \/ cleared = {}
      BY DEF HardwareInv, Lines, Sides
    <3>2. Cardinality(Gone) \in Nat
      BY <2>1, FS_CardinalityType
    <3> QED BY <3>1, <3>2, FS_EmptySet DEF Gone
  <2>5. Len(Line) + Cardinality(passedBy) + Cardinality(cleared) = arrived
    <3>1. Cardinality(passedBy) \in Nat /\ Cardinality(cleared) \in Nat
      <4>1. IsFiniteSet(passedBy) /\ IsFiniteSet(cleared)
        BY <2>1, FS_Subset DEF Gone
      <4> QED BY <4>1, FS_CardinalityType
    <3> QED BY <2>1, <2>2, <2>4, <3>1
  <2>6. {m.n : m \in Hardware!Range(Line) \cup passedBy \cup cleared} = 1 .. arrived
    <3>1. Hardware!Range(Line) \cup passedBy \cup cleared = Range(Line) \cup Gone
      BY DEF Hardware!Range, Range, Gone
    <3> QED BY <2>1, <3>1
  <2>7. link = "udp" => passedBy = {}
    BY DEF HardwareInv, Sides
  <2>8. \A S : Hardware!Cardinality(S) = Cardinality(S)
    BY DEF Hardware!Cardinality, Cardinality
  <2> QED BY <2>3, <2>5, <2>6, <2>7, <2>8 DEF Hardware!EveryMessageInOnePlace, Line
<1> QED BY <1>1, Invariant, PTL

\* A message with k others before it is reached by the k+1st poll at the latest,
\* whatever arrives behind it and however many wait.
THEOREM EveryoneHasATurn == FairSpec => []ReachedInTurn
<1>1. IInv => ReachedInTurn
  <2> SUFFICES ASSUME HardwareInv, NEW m \in Hardware!Range(queue \o socket)
               PROVE  turns[m.n] >= 0
    BY DEF IInv, ReachedInTurn, Hardware!ReachedInTurn
  <2>1. Ahead \in Seq(Messages)
    BY AheadType DEF HardwareInv
  <2>2. PICK i \in 1 .. Len(Ahead) : m = Ahead[i]
    BY <2>1 DEF Ahead, Hardware!Range
  <2>3. /\ turns \in Seq(Int) /\ Len(turns) = arrived
        /\ m.n \in 1 .. arrived /\ turns[m.n] >= i - 1
    BY <2>2 DEF HardwareInv, Turns
  <2>4. turns[m.n] \in Int
    BY <2>3
  <2> QED BY <2>1, <2>3, <2>4
<1> QED BY <1>1, Invariant, PTL

=============================================================================
