-------------------------- MODULE NetworkSimProofs --------------------------
(***************************************************************************)
(* Theorems about NetworkSim, for every value of its constants.            *)
(***************************************************************************)
EXTENDS NetworkSim, TLAPS, SequenceTheorems, FiniteSetTheorems

\* The positions of a sequence that satisfy a condition can be counted.
LEMMA PositionsFinite ==
  ASSUME NEW S, NEW seq \in Seq(S), NEW T \in SUBSET DOMAIN seq
  PROVE  IsFiniteSet(T) /\ Cardinality(T) \in Nat
<1>1. Len(seq) \in Nat /\ DOMAIN seq = 1 .. Len(seq)
  BY LenProperties
<1>2. IsFiniteSet(1 .. Len(seq))
  BY <1>1, FS_Interval
<1>3. IsFiniteSet(T)
  BY <1>1, <1>2, FS_Subset
<1>4. QED
  BY <1>3, FS_CardinalityType

\* Repeating a value gives a sequence of that value: what deliver() appends to
\* the list of messages an ECU was handed.
LEMMA RepeatType ==
  ASSUME NEW S, NEW x \in S, NEW n \in Nat
  PROVE  Repeat(x, n) \in Seq(S)
<1>1. Repeat(x, n) \in [1 .. n -> S]
  BY DEF Repeat
<1>2. QED
  BY <1>1, SeqDef

\* A message is a record with exactly the declared fields.
LEMMA MessageFields ==
  ASSUME NEW m \in Message
  PROVE  /\ m.id \in Nat /\ m.key \in Keys /\ m.ts \in Nat
         /\ m.data \in {"intact", "flipped"} /\ m.born \in Nat /\ m.from \in Nat
BY DEF Message

\* A message pushed by an update, or made for inject(), is a Message.
LEMMA NewMessageType ==
  ASSUME time \in Nat, NEW id \in Nat, NEW k \in Keys, NEW e \in Nat
  PROVE  /\ NewMessage(id, k, e) \in Message
         /\ NewMessage(id, k, e).id = id
BY DEF NewMessage, Message

\* Stamping a message and holding it keep its type.
LEMMA StampType ==
  ASSUME NEW m \in Message, NEW t \in Nat
  PROVE  [m EXCEPT !.ts = t] \in Message
BY DEF Message

\* What the Delay arm of route() puts on the delay list is a Held.
LEMMA HeldType ==
  ASSUME NEW m \in Message, NEW t \in Nat, NEW d \in Nat
  PROVE  [at |-> t + d, msg |-> [m EXCEPT !.ts = @ + d]] \in Held
<1>1. m.ts + d \in Nat
  BY MessageFields
<1>2. [m EXCEPT !.ts = m.ts + d] \in Message
  BY <1>1, StampType
<1>3. QED
  BY <1>2 DEF Held

\* Delivery adds to the inboxes and attaches nobody.
LEMMA DeliverType ==
  ASSUME TypeOK, NEW m \in Message, Deliver(m)
  PROVE  /\ inbox' \in Seq(Seq(Message))
         /\ DOMAIN inbox' = DOMAIN inbox
<1>1. Len(inbox) \in Nat /\ DOMAIN inbox = 1 .. Len(inbox)
  BY LenProperties DEF TypeOK
<1>2. ASSUME NEW e \in DOMAIN inbox
      PROVE  inbox[e] \o Repeat(m, Copies(e, m.key)) \in Seq(Message)
  <2>1. Copies(e, m.key) \in Nat
    <3>1. subs[m.key] \in Seq(Subscription)
      BY MessageFields DEF TypeOK
    <3> QED
      BY <3>1, PositionsFinite DEF Copies
  <2>2. Repeat(m, Copies(e, m.key)) \in Seq(Message)
    BY <2>1, RepeatType
  <2>3. inbox[e] \in Seq(Message)
    BY <1>1, ElementOfSeq DEF TypeOK
  <2>4. QED
    BY <2>2, <2>3, ConcatProperties
<1>3. inbox' \in [1 .. Len(inbox) -> Seq(Message)]
  BY <1>1, <1>2 DEF Deliver
<1>4. QED
  BY <1>1, <1>3, SeqDef

\* Appending to the log keeps its type.
LEMMA EntryType ==
  ASSUME TypeOK, NEW m \in Message, NEW kind \in {"message", "dropped", "delayed", "corrupted"}
  PROVE  /\ Entry(kind, m) \in Record
         /\ Append(records, Entry(kind, m)) \in Seq(Record)
BY AppendProperties DEF TypeOK, Entry, Record

\* Routing one message keeps the types of what it changes.
LEMMA RouteType ==
  ASSUME TypeOK, Route
  PROVE  /\ outbound' \in Seq(Message) /\ records' \in Seq(Record)
         /\ delayed' \in SUBSET Held /\ inbox' \in Seq(Seq(Message))
         /\ DOMAIN inbox' = DOMAIN inbox
<1> DEFINE m == [Head(outbound) EXCEPT !.ts = time]
<1>1. m \in Message /\ outbound' \in Seq(Message)
  <2>1. outbound \in Seq(Message) /\ outbound # <<>> /\ outbound' = Tail(outbound)
    BY DEF Route, TypeOK
  <2>2. Head(outbound) \in Message /\ outbound' \in Seq(Message)
    BY <2>1, HeadTailProperties
  <2>3. QED
    BY <2>2, StampType DEF TypeOK
<1>2. CASE RouteClean(m)
  BY <1>1, <1>2, EntryType, DeliverType DEF RouteClean, TypeOK
<1>3. ASSUME NEW i \in DOMAIN faults,
             RouteDrop(m, faults[i].rule) \/ RouteDelay(m, faults[i].rule)
               \/ RouteCorrupt(m, faults[i].rule)
      PROVE  /\ records' \in Seq(Record) /\ delayed' \in SUBSET Held
             /\ inbox' \in Seq(Seq(Message)) /\ DOMAIN inbox' = DOMAIN inbox
  <2> DEFINE r == faults[i].rule
  <2>1. r \in RuleType
    <3>1. faults \in Seq(FaultEntry) /\ i \in 1 .. Len(faults)
      BY LenProperties DEF TypeOK
    <3>2. faults[i] \in FaultEntry
      BY <3>1, ElementOfSeq
    <3>3. QED
      BY <3>2, NetworkSimAssumption DEF FaultEntry
  <2>2. CASE RouteDrop(m, r)
    BY <1>1, <2>2, EntryType DEF RouteDrop, TypeOK
  <2>3. CASE RouteDelay(m, r)
    <3>1. r.delay \in Nat /\ time \in Nat /\ m.ts \in Nat
      BY <1>1, <2>1, MessageFields DEF RuleType, TypeOK
    <3>2. [at |-> time + r.delay, msg |-> [m EXCEPT !.ts = @ + r.delay]] \in Held
      BY <1>1, <3>1, HeldType
    <3>3. QED
      BY <1>1, <2>3, <3>2, EntryType DEF RouteDelay, TypeOK
  <2>4. CASE RouteCorrupt(m, r)
    <3> DEFINE c == IF r.flips THEN [m EXCEPT !.data = "flipped"] ELSE m
    <3>1. c \in Message
      BY <1>1 DEF Message
    <3>2. /\ Entry("corrupted", c) \in Record /\ Entry("message", c) \in Record
      BY <3>1, EntryType
    <3>3. <<Entry("corrupted", c), Entry("message", c)>> \in Seq(Record)
      BY <3>2
    <3>4. records' \in Seq(Record)
      BY <2>4, <3>3, ConcatProperties DEF RouteCorrupt, TypeOK
    <3>5. QED
      BY <2>4, <3>1, <3>4, DeliverType DEF RouteCorrupt, TypeOK
  <2>5. QED
    BY <1>3, <2>2, <2>3, <2>4
<1>4. QED
  BY <1>1, <1>2, <1>3 DEF Route

\* A new engine is well typed.
LEMMA TypeInit == Init => TypeOK
BY EmptySeq DEF Init, TypeOK

\* Every call and every step of a tick keeps the variables well typed.
LEMMA TypeStep == TypeOK /\ [Next]_vars => TypeOK'
<1> SUFFICES ASSUME TypeOK, [Next]_vars PROVE TypeOK'
  OBVIOUS
<1> USE NetworkSimAssumption
<1>1. ASSUME NEW keys \in KeyLists, Attach(keys) PROVE TypeOK'
  <2> DEFINE s == [ecu |-> Len(inbox) + 1, since |-> Len(records)]
             count(k) == Cardinality({i \in DOMAIN keys : keys[i] = k})
  <2>1. Len(inbox) \in Nat /\ Len(records) \in Nat /\ s \in Subscription
    BY LenProperties DEF TypeOK, Subscription
  <2>2. /\ inbox' \in Seq(Seq(Message))
        /\ DOMAIN inbox' = 1 .. Len(inbox) + 1 /\ DOMAIN inbox = 1 .. Len(inbox)
    BY <1>1, AppendProperties, LenProperties, EmptySeq DEF Attach, TypeOK
  <2>3. ASSUME NEW k \in Keys
        PROVE  /\ subs'[k] \in Seq(Subscription)
               /\ \A i \in DOMAIN subs'[k] : subs'[k][i].ecu \in DOMAIN inbox'
    <3>1. keys \in Seq(Keys)
      OBVIOUS
    <3>2. count(k) \in Nat
      BY <3>1, PositionsFinite
    <3>3. Repeat(s, count(k)) \in Seq(Subscription)
      BY <2>1, <3>2, RepeatType
    <3>4. subs[k] \in Seq(Subscription)
      BY DEF TypeOK
    <3>5. subs'[k] = subs[k] \o Repeat(s, count(k))
      BY <1>1 DEF Attach
    <3>6. subs'[k] \in Seq(Subscription)
      BY <3>3, <3>4, <3>5, ConcatProperties
    <3>7. ASSUME NEW i \in DOMAIN subs'[k]
          PROVE  subs'[k][i].ecu \in DOMAIN inbox'
      <4>1. Len(Repeat(s, count(k))) = count(k)
        BY <3>2 DEF Repeat
      <4>2. i \in 1 .. Len(subs[k]) + count(k) /\ Len(subs[k]) \in Nat
        BY <3>3, <3>4, <3>5, <3>6, <4>1, ConcatProperties, LenProperties
      <4>3. CASE i <= Len(subs[k])
        <5>1. subs'[k][i] = subs[k][i] /\ i \in DOMAIN subs[k]
          BY <3>3, <3>4, <3>5, <4>1, <4>2, <4>3, ConcatProperties, LenProperties
        <5>2. \A j \in DOMAIN subs[k] : subs[k][j].ecu \in DOMAIN inbox
          BY DEF TypeOK
        <5>3. DOMAIN inbox \subseteq DOMAIN inbox'
          BY <2>1, <2>2
        <5>4. QED
          BY <5>1, <5>2, <5>3
      <4>4. CASE ~(i <= Len(subs[k]))
        <5>1. subs'[k][i] = Repeat(s, count(k))[i - Len(subs[k])]
          BY <3>3, <3>4, <3>5, <4>1, <4>2, <4>4, ConcatProperties
        <5>2. subs'[k][i] = s
          BY <3>2, <4>2, <4>4, <5>1 DEF Repeat
        <5>3. QED
          BY <2>1, <2>2, <5>2
      <4>5. QED
        BY <4>3, <4>4
    <3>8. QED
      BY <3>6, <3>7
  <2>4. subs' \in [Keys -> Seq(Subscription)]
    BY <1>1, <2>3 DEF Attach
  <2>5. QED
    BY <1>1, <2>2, <2>3, <2>4 DEF Attach, TypeOK
<1>2. ASSUME NEW k \in Keys, NEW e \in DOMAIN inbox, Subscribe(k, e) PROVE TypeOK'
  <2> DEFINE s == [ecu |-> e, since |-> Len(records)]
  <2>1. s \in Subscription
    BY LenProperties DEF TypeOK, Subscription
  <2>2. /\ subs[k] \in Seq(Subscription)
        /\ subs'[k] = Append(subs[k], s)
        /\ \A l \in Keys \ {k} : subs'[l] = subs[l]
        /\ subs' \in [Keys -> Seq(Subscription)]
    BY <1>2, <2>1, AppendProperties DEF Subscribe, TypeOK
  <2>3. \A i \in DOMAIN subs'[k] : subs'[k][i].ecu \in DOMAIN inbox
    <3>1. /\ Len(subs[k]) \in Nat /\ DOMAIN subs[k] = 1 .. Len(subs[k])
          /\ DOMAIN subs'[k] = 1 .. Len(subs[k]) + 1
          /\ \A i \in 1 .. Len(subs[k]) : subs'[k][i] = subs[k][i]
          /\ subs'[k][Len(subs[k]) + 1] = s
      BY <2>1, <2>2, AppendProperties, LenProperties
    <3>2. \A i \in DOMAIN subs[k] : subs[k][i].ecu \in DOMAIN inbox
      BY DEF TypeOK
    <3>3. ASSUME NEW i \in 1 .. Len(subs[k]) + 1
          PROVE  subs'[k][i].ecu \in DOMAIN inbox
      <4>1. CASE i \in 1 .. Len(subs[k])
        BY <3>1, <3>2, <4>1
      <4>2. CASE i = Len(subs[k]) + 1
        BY <3>1, <4>2
      <4>3. QED
        BY <3>1, <4>1, <4>2
    <3>4. QED
      BY <3>1, <3>3
  <2>4. QED
    BY <1>2, <2>2, <2>3 DEF Subscribe, TypeOK
<1>3. ASSUME NEW r \in Rules, AddFault(r) PROVE TypeOK'
  <2>1. [rule |-> r, since |-> nextId] \in FaultEntry
    BY DEF FaultEntry, TypeOK
  <2>2. QED
    BY <1>3, <2>1, AppendProperties DEF AddFault, TypeOK
<1>4. ASSUME NEW k \in Keys, Inject(k) PROVE TypeOK'
  <2> DEFINE m == [NewMessage(nextId, k, 0) EXCEPT !.ts = time]
  <2>1. m \in Message
    BY DEF NewMessage, Message, TypeOK
  <2>2. records' = Append(records, Entry("message", m)) /\ Deliver(m)
    BY <1>4 DEF Inject
  <2>3. /\ records' \in Seq(Record)
        /\ inbox' \in Seq(Seq(Message)) /\ DOMAIN inbox' = DOMAIN inbox
    BY <2>1, <2>2, EntryType, DeliverType
  <2>4. QED
    BY <1>4, <2>3, SMTT(20) DEF Inject, TypeOK
<1>5. ASSUME NEW t \in RunTargets, RunUntil(t) PROVE TypeOK'
  BY <1>5 DEF RunUntil, TypeOK
<1>6. ASSUME NEW burst \in Bursts, UpdateEcu(burst) PROVE TypeOK'
  <2> DEFINE new == [i \in 1 .. Len(burst) |-> NewMessage(nextId + i - 1, burst[i], turn)]
  <2>1. Len(burst) \in Nat /\ \A i \in 1 .. Len(burst) : burst[i] \in Keys
    BY LenProperties, ElementOfSeq
  <2>2. \A i \in 1 .. Len(burst) : new[i] \in Message
    BY <2>1 DEF NewMessage, Message, TypeOK
  <2>3. new \in Seq(Message)
    BY <2>1, <2>2, SeqDef
  <2>4. outbound' \in Seq(Message)
    BY <1>6, <2>3, ConcatProperties DEF UpdateEcu, TypeOK
  <2>5. QED
    BY <1>6, <2>1, <2>4 DEF UpdateEcu, TypeOK
<1>7. ASSUME UpdatesDone PROVE TypeOK'
  BY <1>7 DEF UpdatesDone, TypeOK
<1>8. ASSUME Route PROVE TypeOK'
  BY <1>8, RouteType DEF Route, TypeOK
<1>9. ASSUME TakeDue PROVE TypeOK'
  BY <1>9 DEF TakeDue, TypeOK
<1>10. ASSUME DeliverDue PROVE TypeOK'
  <2>1. PICK d \in due : /\ records' = Append(records, Entry("message", d.msg))
                         /\ Deliver(d.msg)
                         /\ due' = due \ {d}
    BY <1>10 DEF DeliverDue
  <2>2. d.msg \in Message
    BY DEF TypeOK, Held
  <2>3. QED
    BY <1>10, <2>1, <2>2, EntryType, DeliverType DEF DeliverDue, TypeOK
<1>11. ASSUME EndTick PROVE TypeOK'
  BY <1>11 DEF EndTick, TypeOK
<1>12. CASE UNCHANGED vars
  BY <1>12 DEF vars, TypeOK
<1>13. QED
  BY <1>1, <1>2, <1>3, <1>4, <1>5, <1>6, <1>7, <1>8, <1>9, <1>10, <1>11, <1>12
     DEF Next, Call, Tick

\* In every reachable state the engine's variables have their types, and each
\* subscription indexes an ECU of the vector: deliver never indexes past its end.
THEOREM TypeCorrect == Spec => []TypeOK
BY TypeInit, TypeStep, PTL DEF Spec

-----------------------------------------------------------------------------
(* run_until and the delay list against the clock.                         *)

\* run_until leaves its loop exactly when the clock has reached its argument.
THEOREM RunStops == Spec => []RunStopsAtTarget
<1>1. Init => RunStopsAtTarget
  BY DEF Init, RunStopsAtTarget
<1>2. TypeOK /\ RunStopsAtTarget /\ [Next]_vars => RunStopsAtTarget'
  <2> SUFFICES ASSUME TypeOK, RunStopsAtTarget, [Next]_vars PROVE RunStopsAtTarget'
    OBVIOUS
  <2>1. CASE UNCHANGED <<time, pc, until>>
    BY <2>1 DEF RunStopsAtTarget
  <2>2. ASSUME NEW t \in RunTargets, RunUntil(t) PROVE RunStopsAtTarget'
    BY <2>2, NetworkSimAssumption DEF RunUntil, RunStopsAtTarget, TypeOK
  <2>3. CASE UpdatesDone \/ TakeDue
    BY <2>3 DEF UpdatesDone, TakeDue, RunStopsAtTarget
  <2>4. CASE EndTick
    BY <2>4, NetworkSimAssumption DEF EndTick, RunStopsAtTarget, TypeOK
  <2>5. QED
    BY <2>1, <2>2, <2>3, <2>4
       DEF Next, Call, Tick, vars, Attach, Subscribe, AddFault, Inject,
           UpdateEcu, Route, DeliverDue
<1>3. QED
  BY <1>1, <1>2, TypeCorrect, PTL DEF Spec

-----------------------------------------------------------------------------
(* What one step may add to the log.                                       *)

\* The log after the step is the log before it and entries of S.
LogAdds(S) ==
  \A n \in DOMAIN records' :
    \/ n \in DOMAIN records /\ records'[n] = records[n]
    \/ n \notin DOMAIN records /\ records'[n] \in S

\* Appending one record to the log leaves the delivered ones and adds the new
\* one exactly when it is a "message".
LEMMA LogAppend ==
  ASSUME TypeOK, NEW e \in Record, records' = Append(records, e)
  PROVE  /\ LogAdds({e})
         /\ DOMAIN records' = DOMAIN records \cup {Len(records) + 1}
         /\ Len(records) + 1 \notin DOMAIN records
         /\ records'[Len(records) + 1] = e
<1>1. records \in Seq(Record)
  BY DEF TypeOK
<1>2. /\ DOMAIN records = 1 .. Len(records) /\ Len(records) \in Nat
      /\ DOMAIN records' = 1 .. Len(records) + 1
      /\ \A n \in 1 .. Len(records) : records'[n] = records[n]
      /\ records'[Len(records) + 1] = e
  BY <1>1, AppendProperties, LenProperties
<1>3. QED
  BY <1>2 DEF LogAdds

\* Of a pushed message that is routed: what happens to it, in one formula.
LEMMA RouteOutcome ==
  ASSUME TypeOK, Route
  PROVE  LET m == [Head(outbound) EXCEPT !.ts = time]
         IN  /\ outbound # <<>> /\ Head(outbound) \in Message /\ m \in Message
             /\ \/ \E c \in {m, [m EXCEPT !.data = "flipped"]} :
                     /\ c \in Message
                     /\ \/ records' = Append(records, Entry("message", c))
                        \/ records' = records \o <<Entry("corrupted", c), Entry("message", c)>>
                     /\ delayed' = delayed
                \/ /\ records' = Append(records, Entry("dropped", m))
                   /\ delayed' = delayed
                \/ \E d \in Nat :
                     /\ records' = Append(records, Entry("delayed", m))
                     /\ delayed' = delayed \cup
                          {[at |-> time + d, msg |-> [m EXCEPT !.ts = @ + d]]}
<1> DEFINE m == [Head(outbound) EXCEPT !.ts = time]
<1>1. outbound # <<>> /\ Head(outbound) \in Message /\ m \in Message
  BY HeadTailProperties, StampType DEF Route, TypeOK
<1>2. [m EXCEPT !.data = "flipped"] \in Message
  <2> HIDE DEF m
  <2>1. QED
    BY <1>1 DEF Message
<1>3. CASE RouteClean(m)
  BY <1>1, <1>3 DEF RouteClean
<1>4. ASSUME NEW i \in DOMAIN faults, RouteDrop(m, faults[i].rule)
      PROVE  records' = Append(records, Entry("dropped", m)) /\ delayed' = delayed
  BY <1>4 DEF RouteDrop
<1>5. ASSUME NEW i \in DOMAIN faults, RouteDelay(m, faults[i].rule)
      PROVE  \E d \in Nat :
               /\ records' = Append(records, Entry("delayed", m))
               /\ delayed' = delayed \cup
                    {[at |-> time + d, msg |-> [m EXCEPT !.ts = @ + d]]}
  <2>1. faults \in Seq(FaultEntry) /\ i \in 1 .. Len(faults)
    BY LenProperties DEF TypeOK
  <2>2. faults[i] \in FaultEntry
    BY <2>1, ElementOfSeq
  <2>3. faults[i].rule.delay \in Nat
    BY <2>2, NetworkSimAssumption DEF FaultEntry, RuleType
  <2>4. QED
    BY <1>5, <2>3 DEF RouteDelay
<1>6. ASSUME NEW i \in DOMAIN faults, RouteCorrupt(m, faults[i].rule)
      PROVE  \E c \in {m, [m EXCEPT !.data = "flipped"]} :
               /\ c \in Message
               /\ records' = records \o <<Entry("corrupted", c), Entry("message", c)>>
               /\ delayed' = delayed
  BY <1>1, <1>2, <1>6 DEF RouteCorrupt
<1>7. QED
  BY <1>1, <1>3, <1>4, <1>5, <1>6 DEF Route

\* The Corrupt arm of route() appends an event and a message: exactly the
\* second is a delivery.
LEMMA LogAppendTwo ==
  ASSUME TypeOK, NEW e \in Record, NEW f \in Record, records' = records \o <<e, f>>
  PROVE  /\ LogAdds({e, f})
         /\ DOMAIN records' = DOMAIN records \cup {Len(records) + 1, Len(records) + 2}
         /\ Len(records) + 1 \notin DOMAIN records /\ Len(records) + 2 \notin DOMAIN records
         /\ records'[Len(records) + 1] = e /\ records'[Len(records) + 2] = f
<1>1. records \in Seq(Record) /\ <<e, f>> \in Seq(Record) /\ Len(<<e, f>>) = 2
  BY DEF TypeOK
<1>2. /\ DOMAIN records = 1 .. Len(records) /\ Len(records) \in Nat
      /\ DOMAIN records' = 1 .. Len(records) + 2
      /\ \A n \in 1 .. Len(records) + 2 :
           records'[n] = IF n <= Len(records) THEN records[n] ELSE <<e, f>>[n - Len(records)]
  BY <1>1, ConcatProperties, LenProperties
<1>3. \A n \in 1 .. Len(records) : records'[n] = records[n]
  BY <1>2
<1>4. records'[Len(records) + 1] = e /\ records'[Len(records) + 2] = f
  BY <1>2
<1>5. QED
  BY <1>2, <1>3, <1>4 DEF LogAdds

\* Log entries keep a property that every new delivery has.
Punctual(r) == r.kind = "message" => r.msg.ts <= r.tick /\ r.tick < r.msg.ts + StepUs

\* A log that grows by punctual entries only stays punctual.
LEMMA PunctualStep ==
  ASSUME NEW S, LogAdds(S), \A r \in S : Punctual(r),
         \A n \in DOMAIN records : Punctual(records[n])
  PROVE  \A n \in DOMAIN records' : Punctual(records'[n])
BY DEF LogAdds

\* Why a held message is on time: between ticks and until the release its time
\* lies less than a step back, after the release what stays is in the future.
Pacing ==
  /\ pc # "due" => \A d \in delayed : time < d.at + StepUs
  /\ pc = "due" => \A d \in delayed : time < d.at
  /\ \A d \in due : d.at <= time /\ time < d.at + StepUs
  /\ \A d \in delayed \cup due : d.msg.ts = d.at
  /\ pc # "due" => due = {}
  /\ \A n \in DOMAIN records : Punctual(records[n])

\* A "message" record carries the tick it is made in.
LEMMA EntryNow ==
  ASSUME time \in Nat, NEW m \in Message, m.ts <= time, time < m.ts + StepUs,
         NEW kind \in {"message", "dropped", "delayed", "corrupted"}
  PROVE  Punctual(Entry(kind, m))
BY DEF Entry, Punctual

\* The record of a dropped or delayed message is no delivery.
LEMMA EntryOther ==
  ASSUME NEW m, NEW kind \in {"dropped", "delayed", "corrupted"}
  PROVE  Punctual(Entry(kind, m))
BY DEF Entry, Punctual

\* Every call and every step of a tick keeps the pacing invariant.
LEMMA PacingStep == TypeOK /\ Pacing /\ [Next]_vars => Pacing'
<1> SUFFICES ASSUME TypeOK, Pacing, [Next]_vars PROVE Pacing'
  OBVIOUS
<1>0. time \in Nat /\ StepUs \in Nat \ {0}
  BY NetworkSimAssumption DEF TypeOK
<1>1. CASE UNCHANGED <<time, pc, delayed, due, records>>
  BY <1>1 DEF Pacing, Punctual
<1>2. ASSUME NEW k \in Keys, Inject(k) PROVE Pacing'
  <2> DEFINE m == [NewMessage(nextId, k, 0) EXCEPT !.ts = time]
  <2>1. m \in Message /\ m.ts = time
    BY DEF NewMessage, Message, TypeOK
  <2>2. records' = Append(records, Entry("message", m))
        /\ UNCHANGED <<time, pc, delayed, due>>
    BY <1>2 DEF Inject
  <2>3. Punctual(Entry("message", m))
    <3>1. m.ts <= time /\ time < m.ts + StepUs
      BY <1>0, <2>1
    <3> HIDE DEF m
    <3>2. QED
      BY <1>0, <2>1, <3>1, EntryNow
  <2>4. LogAdds({Entry("message", m)})
    BY <2>1, <2>2, EntryType, LogAppend
  <2>5. \A n \in DOMAIN records' : Punctual(records'[n])
    BY <2>3, <2>4, PunctualStep DEF Pacing
  <2>6. QED
    BY <2>2, <2>5 DEF Pacing, Punctual
<1>3. ASSUME NEW t \in RunTargets, RunUntil(t) PROVE Pacing'
  BY <1>3 DEF RunUntil, Pacing, Punctual
<1>4. CASE UpdatesDone
  BY <1>4 DEF UpdatesDone, Pacing, Punctual
<1>5. CASE Route
  <2> DEFINE m == [Head(outbound) EXCEPT !.ts = time]
  <2>1. m \in Message /\ m.ts = time
    BY <1>5, RouteOutcome DEF Message
  <2>2. pc = "route" /\ UNCHANGED <<time, pc, due>>
    BY <1>5 DEF Route
  <2>3. ASSUME NEW c \in {m, [m EXCEPT !.data = "flipped"]}, c \in Message,
               \/ records' = Append(records, Entry("message", c))
               \/ records' = records \o <<Entry("corrupted", c), Entry("message", c)>>,
               delayed' = delayed
        PROVE  Pacing'
    <3>1. c.ts = time
      BY <2>1 DEF Message
    <3>2. Punctual(Entry("message", c)) /\ Punctual(Entry("corrupted", c))
      BY <1>0, <2>3, <3>1, EntryNow, EntryOther
    <3>3. LogAdds({Entry("message", c)}) \/ LogAdds({Entry("corrupted", c), Entry("message", c)})
      BY <2>3, EntryType, LogAppend, LogAppendTwo
    <3>4. \A n \in DOMAIN records' : Punctual(records'[n])
      BY <3>2, <3>3, PunctualStep DEF Pacing
    <3>5. QED
      BY <2>2, <2>3, <3>4 DEF Pacing, Punctual
  <2>4. CASE records' = Append(records, Entry("dropped", m)) /\ delayed' = delayed
    <3>1. LogAdds({Entry("dropped", m)}) /\ Punctual(Entry("dropped", m))
      BY <2>1, <2>4, EntryType, EntryOther, LogAppend
    <3>2. \A n \in DOMAIN records' : Punctual(records'[n])
      BY <3>1, PunctualStep DEF Pacing
    <3>3. QED
      BY <2>2, <2>4, <3>2 DEF Pacing, Punctual
  <2>5. ASSUME NEW d \in Nat,
               records' = Append(records, Entry("delayed", m)),
               delayed' = delayed \cup
                 {[at |-> time + d, msg |-> [m EXCEPT !.ts = @ + d]]}
        PROVE  Pacing'
    <3>1. LogAdds({Entry("delayed", m)}) /\ Punctual(Entry("delayed", m))
      BY <2>1, <2>5, EntryType, EntryOther, LogAppend
    <3>2. \A n \in DOMAIN records' : Punctual(records'[n])
      BY <3>1, PunctualStep DEF Pacing
    <3> DEFINE h == [at |-> time + d, msg |-> [m EXCEPT !.ts = @ + d]]
    <3>3. h.msg.ts = h.at /\ time < h.at + StepUs
      <4> HIDE DEF m
      <4>1. h.msg.ts = time + d
        BY <2>1 DEF Message
      <4>2. QED
        BY <1>0, <4>1
    <3>4. QED
      BY <2>2, <2>5, <3>2, <3>3 DEF Pacing, Punctual
  <2>6. QED
    BY <1>5, <2>3, <2>4, <2>5, RouteOutcome
<1>6. CASE TakeDue
  <2>1. \A d \in delayed : d.at \in Nat
    BY DEF TypeOK, Held
  <2>2. QED
    BY <1>0, <1>6, <2>1 DEF TakeDue, IsDue, Pacing, Punctual
<1>7. CASE DeliverDue
  <2>1. PICK d \in due : /\ records' = Append(records, Entry("message", d.msg))
                         /\ due' = due \ {d}
    BY <1>7 DEF DeliverDue
  <2>2. d.msg \in Message /\ d.msg.ts = d.at
    BY DEF TypeOK, Held, Pacing
  <2>3. Punctual(Entry("message", d.msg)) /\ LogAdds({Entry("message", d.msg)})
    BY <1>0, <2>1, <2>2, EntryNow, EntryType, LogAppend DEF Pacing
  <2>4. \A n \in DOMAIN records' : Punctual(records'[n])
    BY <2>3, PunctualStep DEF Pacing
  <2>5. pc = "due" /\ UNCHANGED <<time, pc, delayed>>
    BY <1>7 DEF DeliverDue
  <2>6. QED
    BY <2>1, <2>4, <2>5 DEF Pacing, Punctual
<1>8. CASE EndTick
  <2>1. \A d \in delayed : d.at \in Nat
    BY DEF TypeOK, Held
  <2>2. QED
    BY <1>0, <1>8, <2>1 DEF EndTick, Pacing, Punctual
<1>9. QED
  BY <1>1, <1>2, <1>3, <1>4, <1>5, <1>6, <1>7, <1>8
     DEF Next, Call, Tick, vars, Attach, Subscribe, AddFault, UpdateEcu

\* A delay fault holds a message at least for its delay and less than a step
\* longer, and no message is ever forgotten on the delay list.
THEOREM DeliveredOnTime == Spec => []OnTime
<1>1. Init => Pacing
  BY DEF Init, Pacing
<1>2. TypeOK /\ Pacing => OnTime
  BY DEF Pacing, Punctual, OnTime, Delivered
<1>3. QED
  BY <1>1, <1>2, TypeCorrect, PacingStep, PTL DEF Spec

-----------------------------------------------------------------------------
(* No message is lost and none is settled twice.                           *)

OutIds == {outbound[i].id : i \in DOMAIN outbound}
HeldIds == {d.msg.id : d \in delayed \cup due}
DoneIds == {records[n].msg.id : n \in Settled}

OutOnce == \A i, j \in DOMAIN outbound : outbound[i].id = outbound[j].id => i = j
HeldOnce == \A c, d \in delayed \cup due : c.msg.id = d.msg.id => c = d
DoneOnce == \A m, n \in Settled : records[m].msg.id = records[n].msg.id => m = n

\* The numbers given out so far are split between the three places.
Split ==
  /\ OutIds \cup HeldIds \cup DoneIds = 0 .. nextId - 1
  /\ OutIds \cap HeldIds = {}
  /\ OutIds \cap DoneIds = {}
  /\ HeldIds \cap DoneIds = {}
  /\ OutOnce
  /\ HeldOnce
  /\ DoneOnce
  /\ delayed \cap due = {}
  /\ pc # "due" => due = {}

\* The records that settle a message after one record was appended.
LEMMA SettleAt ==
  ASSUME NEW p, NEW x, p \notin Settled, Settled' = Settled \cup {p},
         \A n \in Settled : records'[n] = records[n],
         records'[p].msg.id = x, x \notin DoneIds, DoneOnce
  PROVE  DoneIds' = DoneIds \cup {x} /\ DoneOnce'
<1>1. \A n \in Settled : records[n].msg.id # x
  BY DEF DoneIds
<1>2. DoneIds' = DoneIds \cup {x}
  BY DEF DoneIds
<1>3. DoneOnce'
  BY <1>1 DEF DoneOnce
<1>4. QED
  BY <1>2, <1>3

\* When the lists do not change, neither does the split.
LEMMA SplitFrame ==
  ASSUME Split, UNCHANGED <<outbound, delayed, due, records, nextId>>,
         pc' # "due" => due = {}
  PROVE  Split'
<1>1. Settled' = Settled
  BY DEF Settled
<1>2. OutIds' = OutIds /\ HeldIds' = HeldIds /\ DoneIds' = DoneIds
  BY <1>1 DEF OutIds, HeldIds, DoneIds
<1>3. OutOnce' /\ HeldOnce' /\ DoneOnce'
  BY <1>1 DEF Split, OutOnce, HeldOnce, DoneOnce
<1>4. QED
  BY <1>2, <1>3 DEF Split

\* A log entry that settles a message adds its number to the settled ones.
LEMMA SettleOne ==
  ASSUME TypeOK, NEW e \in Record, e.kind \in {"message", "dropped"},
         records' = Append(records, e), e.msg.id \notin DoneIds, DoneOnce
  PROVE  DoneIds' = DoneIds \cup {e.msg.id} /\ DoneOnce'
<1>1. /\ LogAdds({e}) /\ DOMAIN records' = DOMAIN records \cup {Len(records) + 1}
      /\ Len(records) + 1 \notin DOMAIN records /\ records'[Len(records) + 1] = e
  BY LogAppend
<1>2. \A n \in DOMAIN records : records'[n] = records[n]
  BY <1>1 DEF LogAdds
<1>3. Settled' = Settled \cup {Len(records) + 1}
  BY <1>1, <1>2 DEF Settled
<1>4. Len(records) + 1 \notin Settled /\ \A n \in Settled : records'[n] = records[n]
  BY <1>1, <1>2 DEF Settled
<1>5. QED
  BY <1>1, <1>3, <1>4, SettleAt

\* An event that settles nothing leaves them alone.
LEMMA SettleNone ==
  ASSUME TypeOK, NEW e \in Record, e.kind \notin {"message", "dropped"},
         records' = Append(records, e), DoneOnce
  PROVE  DoneIds' = DoneIds /\ DoneOnce'
<1>1. /\ LogAdds({e}) /\ DOMAIN records' = DOMAIN records \cup {Len(records) + 1}
      /\ Len(records) + 1 \notin DOMAIN records /\ records'[Len(records) + 1] = e
  BY LogAppend
<1>2. \A n \in DOMAIN records : records'[n] = records[n]
  BY <1>1 DEF LogAdds
<1>3. Settled' = Settled
  BY <1>1, <1>2 DEF Settled
<1>4. QED
  BY <1>1, <1>2, <1>3 DEF DoneIds, DoneOnce, Settled

\* The two records of a corrupted message settle it once.
LEMMA SettleCorrupted ==
  ASSUME TypeOK, NEW e \in Record, NEW f \in Record,
         e.kind = "corrupted", f.kind = "message",
         records' = records \o <<e, f>>, f.msg.id \notin DoneIds, DoneOnce
  PROVE  DoneIds' = DoneIds \cup {f.msg.id} /\ DoneOnce'
<1>1. /\ LogAdds({e, f})
      /\ DOMAIN records' = DOMAIN records \cup {Len(records) + 1, Len(records) + 2}
      /\ Len(records) + 1 \notin DOMAIN records /\ Len(records) + 2 \notin DOMAIN records
      /\ records'[Len(records) + 1] = e /\ records'[Len(records) + 2] = f
  BY LogAppendTwo
<1>2. \A n \in DOMAIN records : records'[n] = records[n]
  BY <1>1 DEF LogAdds
<1>3. Settled' = Settled \cup {Len(records) + 2}
  BY <1>1, <1>2 DEF Settled
<1>4. Len(records) + 2 \notin Settled /\ \A n \in Settled : records'[n] = records[n]
  BY <1>1, <1>2 DEF Settled
<1>5. QED
  BY <1>1, <1>3, <1>4, SettleAt

\* Taking the front of the pushed messages takes exactly its number.
LEMMA PopOutbound ==
  ASSUME TypeOK, outbound # <<>>, outbound' = Tail(outbound), OutOnce
  PROVE  /\ Head(outbound).id \in OutIds
         /\ OutIds' = OutIds \ {Head(outbound).id}
         /\ OutOnce'
<1>1. outbound \in Seq(Message) /\ DOMAIN outbound = 1 .. Len(outbound)
      /\ Len(outbound) \in Nat \ {0} /\ Head(outbound) = outbound[1]
  BY EmptySeq, LenProperties DEF TypeOK
<1>2. /\ DOMAIN outbound' = 1 .. Len(outbound) - 1
      /\ \A i \in 1 .. Len(outbound) - 1 : outbound'[i] = outbound[i + 1]
  BY <1>1, HeadTailProperties, LenProperties
<1>3. OutOnce'
  BY <1>1, <1>2 DEF OutOnce
<1>4. ASSUME NEW x \in OutIds' PROVE x \in OutIds \ {outbound[1].id}
  <2>1. PICK i \in 1 .. Len(outbound) - 1 : x = outbound[i + 1].id
    BY <1>2, <1>4 DEF OutIds
  <2>2. i + 1 \in DOMAIN outbound /\ 1 \in DOMAIN outbound /\ i + 1 # 1
    BY <1>1
  <2>3. QED
    BY <2>1, <2>2 DEF OutIds, OutOnce
<1>5. ASSUME NEW x \in OutIds \ {outbound[1].id} PROVE x \in OutIds'
  <2>1. PICK j \in 1 .. Len(outbound) : x = outbound[j].id /\ j # 1
    BY <1>1, <1>5 DEF OutIds
  <2>2. j - 1 \in 1 .. Len(outbound) - 1 /\ outbound'[j - 1] = outbound[j]
    BY <1>1, <1>2, <2>1
  <2>3. QED
    BY <1>2, <2>1, <2>2 DEF OutIds
<1>6. Head(outbound).id \in OutIds
  BY <1>1 DEF OutIds
<1>7. QED
  BY <1>1, <1>3, <1>4, <1>5, <1>6

\* Every call and every step of a tick keeps each message in one place.
LEMMA SplitStep == TypeOK /\ Split /\ [Next]_vars => Split'
<1> SUFFICES ASSUME TypeOK, Split, [Next]_vars PROVE Split'
  OBVIOUS
<1>0. nextId \in Nat
  BY DEF TypeOK
<1>1. CASE UNCHANGED <<pc, outbound, delayed, due, records, nextId>>
  BY <1>1, SplitFrame DEF Split
<1>2. ASSUME NEW k \in Keys, Inject(k) PROVE Split'
  <2> DEFINE m == [NewMessage(nextId, k, 0) EXCEPT !.ts = time]
             e == Entry("message", m)
  <2>1. m \in Message /\ m.id = nextId
    BY DEF NewMessage, Message, TypeOK
  <2>2. e \in Record /\ e.kind = "message" /\ e.msg.id = nextId
    BY <2>1, EntryType DEF Entry
  <2>3. /\ records' = Append(records, e) /\ nextId' = nextId + 1
        /\ UNCHANGED <<pc, outbound, delayed, due>>
    BY <1>2 DEF Inject
  <2>4. nextId \notin OutIds \cup HeldIds \cup DoneIds
    BY <1>0 DEF Split
  <2> HIDE DEF e
  <2>5. DoneIds' = DoneIds \cup {nextId} /\ DoneOnce'
    BY <2>2, <2>3, <2>4, SettleOne DEF Split
  <2>6. OutIds' = OutIds /\ HeldIds' = HeldIds /\ OutOnce' /\ HeldOnce'
    BY <2>3 DEF Split, OutIds, HeldIds, OutOnce, HeldOnce
  <2>7. 0 .. nextId' - 1 = (0 .. nextId - 1) \cup {nextId}
    BY <1>0, <2>3
  <2>8. QED
    BY <2>3, <2>4, <2>5, <2>6, <2>7 DEF Split
<1>3. ASSUME NEW t \in RunTargets, RunUntil(t) PROVE Split'
  BY <1>3, SplitFrame DEF RunUntil, Split
<1>4. ASSUME NEW burst \in Bursts, UpdateEcu(burst) PROVE Split'
  <2> DEFINE new == [i \in 1 .. Len(burst) |-> NewMessage(nextId + i - 1, burst[i], turn)]
  <2>1. /\ Len(burst) \in Nat
        /\ \A i \in 1 .. Len(burst) : burst[i] \in Keys
    BY NetworkSimAssumption, LenProperties, ElementOfSeq
  <2>2. \A i \in 1 .. Len(burst) : new[i] \in Message /\ new[i].id = nextId + i - 1
    BY <2>1 DEF NewMessage, Message, TypeOK
  <2>3. new \in Seq(Message) /\ Len(new) = Len(burst)
    BY <2>1, <2>2, SeqDef
  <2>4. /\ outbound' = outbound \o new /\ nextId' = nextId + Len(burst)
        /\ UNCHANGED <<pc, delayed, due, records>>
    BY <1>4 DEF UpdateEcu
  <2>5. /\ Len(outbound) \in Nat /\ DOMAIN outbound = 1 .. Len(outbound)
        /\ outbound \in Seq(Message)
    BY LenProperties DEF TypeOK
  <2> HIDE DEF new
  <2>6. /\ DOMAIN outbound' = 1 .. Len(outbound) + Len(burst)
        /\ \A i \in 1 .. Len(outbound) : outbound'[i] = outbound[i]
        /\ \A i \in 1 .. Len(burst) : outbound'[Len(outbound) + i].id = nextId + i - 1
    <3>1. /\ outbound' \in Seq(Message)
          /\ Len(outbound') = Len(outbound) + Len(burst)
          /\ \A i \in 1 .. Len(outbound) + Len(burst) :
               outbound'[i] = IF i <= Len(outbound) THEN outbound[i]
                                                    ELSE new[i - Len(outbound)]
      <4>1. /\ outbound \o new \in Seq(Message)
            /\ Len(outbound \o new) = Len(outbound) + Len(new)
            /\ \A i \in 1 .. Len(outbound) + Len(new) :
                 (outbound \o new)[i] = IF i <= Len(outbound) THEN outbound[i]
                                                             ELSE new[i - Len(outbound)]
        BY <2>3, <2>5, ConcatProperties
      <4>2. QED
        BY <2>3, <2>4, <4>1
    <3>2. DOMAIN outbound' = 1 .. Len(outbound) + Len(burst)
      BY <3>1, LenProperties
    <3>3. \A i \in 1 .. Len(outbound) : outbound'[i] = outbound[i]
      BY <2>1, <2>5, <3>1
    <3>4. ASSUME NEW i \in 1 .. Len(burst) PROVE outbound'[Len(outbound) + i] = new[i]
      <4>1. /\ Len(outbound) + i \in 1 .. Len(outbound) + Len(burst)
            /\ ~(Len(outbound) + i <= Len(outbound))
            /\ (Len(outbound) + i) - Len(outbound) = i
        BY <2>1, <2>5
      <4>2. outbound'[Len(outbound) + i] = new[(Len(outbound) + i) - Len(outbound)]
        BY <3>1, <4>1
      <4>3. QED
        BY <4>1, <4>2
    <3>5. QED
      BY <2>2, <3>2, <3>3, <3>4
  <2>7. \A i \in DOMAIN outbound' :
          \/ i \in DOMAIN outbound /\ outbound'[i] = outbound[i]
          \/ /\ i \in Len(outbound) + 1 .. Len(outbound) + Len(burst)
             /\ outbound'[i].id = nextId + (i - Len(outbound)) - 1
    <3> SUFFICES ASSUME NEW i \in DOMAIN outbound', i \notin DOMAIN outbound
                 PROVE  /\ i \in Len(outbound) + 1 .. Len(outbound) + Len(burst)
                        /\ outbound'[i].id = nextId + (i - Len(outbound)) - 1
      BY <2>5, <2>6
    <3>1. i - Len(outbound) \in 1 .. Len(burst)
          /\ i = Len(outbound) + (i - Len(outbound))
      BY <2>1, <2>5, <2>6
    <3>2. QED
      BY <2>1, <2>5, <2>6, <3>1
  <2>8. OutIds' = OutIds \cup (nextId .. nextId + Len(burst) - 1)
    <3>1. ASSUME NEW x \in OutIds' PROVE x \in OutIds \cup (nextId .. nextId + Len(burst) - 1)
      BY <1>0, <2>1, <2>5, <2>7, <3>1 DEF OutIds
    <3>2. ASSUME NEW x \in OutIds PROVE x \in OutIds'
      BY <2>1, <2>5, <2>6, <3>2 DEF OutIds
    <3>3. ASSUME NEW x \in nextId .. nextId + Len(burst) - 1 PROVE x \in OutIds'
      <4>1. x - nextId + 1 \in 1 .. Len(burst)
            /\ nextId + (x - nextId + 1) - 1 = x
        BY <1>0, <2>1
      <4>2. Len(outbound) + (x - nextId + 1) \in DOMAIN outbound'
        BY <2>1, <2>5, <2>6, <4>1
      <4>3. outbound'[Len(outbound) + (x - nextId + 1)].id = x
        BY <2>6, <4>1
      <4>4. QED
        BY <4>2, <4>3 DEF OutIds
    <3>4. QED
      BY <3>1, <3>2, <3>3
  <2>9. \A i \in DOMAIN outbound : outbound[i].id \in 0 .. nextId - 1
    BY DEF Split, OutIds
  <2>10. OutOnce'
    BY <1>0, <2>1, <2>5, <2>7, <2>9 DEF Split, OutOnce
  <2>11. /\ HeldIds' = HeldIds /\ DoneIds' = DoneIds /\ HeldOnce' /\ DoneOnce'
    BY <2>4 DEF Split, HeldIds, DoneIds, HeldOnce, DoneOnce, Settled
  <2>12. /\ 0 .. nextId' - 1 = (0 .. nextId - 1) \cup (nextId .. nextId + Len(burst) - 1)
         /\ (0 .. nextId - 1) \cap (nextId .. nextId + Len(burst) - 1) = {}
    BY <1>0, <2>1, <2>4
  <2>13. QED
    BY <2>4, <2>8, <2>10, <2>11, <2>12 DEF Split
<1>5. CASE UpdatesDone
  BY <1>5, SplitFrame DEF UpdatesDone, Split
<1>6. CASE Route
  <2> DEFINE m == [Head(outbound) EXCEPT !.ts = time]
             x == Head(outbound).id
  <2>1. m \in Message /\ m.id = x /\ outbound # <<>>
    BY <1>6, RouteOutcome DEF Message
  <2>2. outbound' = Tail(outbound) /\ pc = "route" /\ UNCHANGED <<pc, due, nextId>>
    BY <1>6 DEF Route
  <2>3. x \in OutIds /\ OutIds' = OutIds \ {x} /\ OutOnce'
    BY <2>1, <2>2, PopOutbound DEF Split
  <2>4. x \notin HeldIds /\ x \notin DoneIds
    BY <2>3 DEF Split
  <2>5. ASSUME DoneIds' = DoneIds \cup {x}, DoneOnce', delayed' = delayed PROVE Split'
    <3>1. HeldIds' = HeldIds /\ HeldOnce'
      BY <2>2, <2>5 DEF HeldIds, HeldOnce, Split
    <3>2. QED
      BY <2>2, <2>3, <2>4, <2>5, <3>1 DEF Split
  <2>6. ASSUME NEW c \in {m, [m EXCEPT !.data = "flipped"]}, c \in Message,
               \/ records' = Append(records, Entry("message", c))
               \/ records' = records \o <<Entry("corrupted", c), Entry("message", c)>>,
               delayed' = delayed
        PROVE  Split'
    <3>1. c.id = x
      <4> HIDE DEF m
      <4>1. c.id = m.id
        BY <2>1 DEF Message
      <4>2. QED
        BY <2>1, <4>1
    <3>2. /\ Entry("message", c) \in Record /\ Entry("corrupted", c) \in Record
          /\ Entry("message", c).kind = "message" /\ Entry("message", c).msg.id = x
          /\ Entry("corrupted", c).kind = "corrupted"
      BY <2>6, <3>1, EntryType DEF Entry
    <3>3. DoneIds' = DoneIds \cup {x} /\ DoneOnce'
      BY <2>4, <2>6, <3>2, SettleOne, SettleCorrupted DEF Split
    <3>4. QED
      BY <2>5, <2>6, <3>3
  <2>7. CASE records' = Append(records, Entry("dropped", m)) /\ delayed' = delayed
    <3>1. /\ Entry("dropped", m) \in Record /\ Entry("dropped", m).kind = "dropped"
          /\ Entry("dropped", m).msg.id = x
      BY <2>1, EntryType DEF Entry
    <3>2. DoneIds' = DoneIds \cup {x} /\ DoneOnce'
      BY <2>4, <2>7, <3>1, SettleOne DEF Split
    <3>3. QED
      BY <2>5, <2>7, <3>2
  <2>8. ASSUME NEW d \in Nat,
               records' = Append(records, Entry("delayed", m)),
               delayed' = delayed \cup
                 {[at |-> time + d, msg |-> [m EXCEPT !.ts = @ + d]]}
        PROVE  Split'
    <3> DEFINE h == [at |-> time + d, msg |-> [m EXCEPT !.ts = @ + d]]
    <3>1. Entry("delayed", m) \in Record /\ Entry("delayed", m).kind = "delayed"
      BY <2>1, EntryType DEF Entry
    <3>2. DoneIds' = DoneIds /\ DoneOnce'
      BY <2>8, <3>1, SettleNone DEF Split
    <3>3. h.msg.id = x
      <4> HIDE DEF m
      <4>1. h.msg.id = m.id
        BY <2>1 DEF Message
      <4>2. QED
        BY <2>1, <4>1
    <3>4. delayed' = delayed \cup {h} /\ due' = due /\ due = {}
      BY <2>2, <2>8 DEF Split
    <3> HIDE DEF h, x
    <3>5. HeldIds' = HeldIds \cup {x} /\ HeldOnce'
      BY <2>4, <3>3, <3>4 DEF HeldIds, HeldOnce, Split
    <3>6. QED
      BY <2>2, <2>3, <2>4, <3>2, <3>4, <3>5 DEF Split
  <2>9. QED
    BY <1>6, <2>6, <2>7, <2>8, RouteOutcome
<1>7. CASE TakeDue
  <2>1. /\ due = {} /\ due' = {d \in delayed : IsDue(d)}
        /\ delayed' = {d \in delayed : ~IsDue(d)} /\ pc' = "due"
        /\ UNCHANGED <<outbound, records, nextId>>
    BY <1>7 DEF TakeDue, Split
  <2>2. delayed' \cup due' = delayed \cup due /\ delayed' \cap due' = {}
    BY <2>1
  <2>3. HeldIds' = HeldIds /\ HeldOnce'
    BY <2>2 DEF HeldIds, HeldOnce, Split
  <2>4. OutIds' = OutIds /\ OutOnce' /\ DoneIds' = DoneIds /\ DoneOnce'
    BY <2>1 DEF OutIds, OutOnce, DoneIds, DoneOnce, Settled, Split
  <2>5. QED
    BY <2>1, <2>2, <2>3, <2>4 DEF Split
<1>8. CASE DeliverDue
  <2>1. PICK d \in due : /\ records' = Append(records, Entry("message", d.msg))
                         /\ due' = due \ {d}
    BY <1>8 DEF DeliverDue
  <2>2. /\ Entry("message", d.msg) \in Record
        /\ Entry("message", d.msg).kind = "message"
        /\ Entry("message", d.msg).msg.id = d.msg.id
    BY EntryType DEF Entry, TypeOK, Held
  <2>3. d.msg.id \in HeldIds /\ d.msg.id \notin DoneIds
    BY DEF Split, HeldIds
  <2>4. DoneIds' = DoneIds \cup {d.msg.id} /\ DoneOnce'
    BY <2>1, <2>2, <2>3, SettleOne DEF Split
  <2>5. pc = "due" /\ UNCHANGED <<pc, outbound, delayed, nextId>>
    BY <1>8 DEF DeliverDue
  <2>6. delayed' \cup due' = (delayed \cup due) \ {d}
    BY <2>1, <2>5 DEF Split
  <2>7. HeldIds' = HeldIds \ {d.msg.id} /\ HeldOnce'
    BY <2>6 DEF HeldIds, HeldOnce, Split
  <2>8. OutIds' = OutIds /\ OutOnce'
    BY <2>5 DEF OutIds, OutOnce, Split
  <2>9. QED
    BY <2>1, <2>3, <2>4, <2>5, <2>7, <2>8 DEF Split
<1>9. CASE EndTick
  BY <1>9, SplitFrame DEF EndTick, Split
<1>10. QED
  BY <1>1, <1>2, <1>3, <1>4, <1>5, <1>6, <1>7, <1>8, <1>9
     DEF Next, Call, Tick, vars, Attach, Subscribe, AddFault

\* Through every interleaving of calls and ticks, every message is in exactly
\* one place: step() and route() lose none and settle none twice.
THEOREM OneFate == Spec => []ExactlyOneFate
<1>1. Init => Split
  BY DEF Init, Split, OutIds, HeldIds, DoneIds, OutOnce, HeldOnce, DoneOnce, Settled
<1>2. TypeOK /\ Split => ExactlyOneFate
  BY SMTT(20) DEF Split, OutIds, HeldIds, DoneIds, OutOnce, HeldOnce, DoneOnce, ExactlyOneFate,
                  Waiting, HeldBack
<1>3. QED
  BY <1>1, <1>2, TypeCorrect, SplitStep, PTL DEF Spec

-----------------------------------------------------------------------------
(* What the network engine delivers, to whom and in which order: which     *)
(* fault rule decides for a message, what the ECUs are handed, that all of *)
(* them see one order, and which messages may be overtaken in it.          *)

-----------------------------------------------------------------------------
(* Which rule decides.                                                     *)

First(on) == CHOOSE i \in on : \A j \in on : i <= j

\* What the earliest of the rules that held at m's birth says has been done.
AsRuled(m, kind) ==
  IF RulesOn(m) = {}
  THEN kind = "message" /\ m.data = "intact" /\ m.ts = m.born
  ELSE LET r == faults[First(RulesOn(m))].rule
       IN  /\ First(RulesOn(m)) \in DOMAIN faults
           /\ (kind = "dropped") = (r.kind = "drop")
           /\ (m.data = "flipped") = (r.kind = "corrupt" /\ r.flips)
           /\ m.ts = m.born + (IF r.kind = "delay" THEN r.delay ELSE 0)

RecordRuled(r) ==
  /\ r.msg.id < nextId
  /\ r.msg.from # 0 /\ r.kind \in {"message", "dropped"} => AsRuled(r.msg, r.kind)

HeldRuled(d) == d.msg.id < nextId /\ AsRuled(d.msg, "message")

\* A message that is still to be routed was pushed in this tick, behind all the
\* rules there are.
Pushed(m) ==
  /\ m.born = time /\ m.data = "intact" /\ m.id < nextId
  /\ \A j \in DOMAIN faults : faults[j].since <= m.id

Ruled ==
  /\ \A n \in DOMAIN records : RecordRuled(records[n])
  /\ \A d \in delayed \cup due : HeldRuled(d)
  /\ \A i \in DOMAIN outbound : Pushed(outbound[i])
  /\ \A j \in DOMAIN faults : faults[j].since <= nextId
  /\ pc \in {"idle", "due"} => outbound = <<>>

LEMMA FaultFields ==
  ASSUME TypeOK, NEW i \in DOMAIN faults
  PROVE  /\ i \in Nat /\ faults[i].since \in Nat /\ faults[i].rule \in RuleType
         /\ faults[i].rule.key \in Keys /\ faults[i].rule.start \in Nat
         /\ faults[i].rule.kind \in {"drop", "delay", "corrupt"}
         /\ faults[i].rule.delay \in Nat /\ faults[i].rule.flips \in BOOLEAN
         /\ faults[i].rule.duration = Forever \/ faults[i].rule.duration \in Nat
<1>1. faults \in Seq(FaultEntry) /\ i \in 1 .. Len(faults) /\ i \in Nat
  BY LenProperties DEF TypeOK
<1>2. faults[i] \in FaultEntry
  BY <1>1, ElementOfSeq
<1>3. faults[i].rule \in RuleType /\ faults[i].since \in Nat
  BY <1>2, NetworkSimAssumption DEF FaultEntry
<1> QED BY <1>1, <1>3 DEF RuleType

\* For a message pushed in this tick the rules that held at its birth are the
\* ones route() finds to match.
LEMMA RulesNow ==
  ASSUME TypeOK, NEW m, m.born = time,
         \A j \in DOMAIN faults : faults[j].since <= m.id
  PROVE  RulesOn(m) = {i \in DOMAIN faults : Matches(i, m.key)}
<1>1. time \in Nat
  BY DEF TypeOK
<1>2. ASSUME NEW i \in DOMAIN faults
      PROVE  InWindow(faults[i].rule, time) <=> ActiveNow(faults[i].rule)
  BY <1>1, FaultFields, NetworkSimAssumption DEF InWindow, ActiveNow
<1> QED BY <1>2 DEF RulesOn, Matches

\* The first match is the earliest rule.
LEMMA FirstDecides ==
  ASSUME TypeOK, NEW k, NEW i \in DOMAIN faults, FirstMatch(i, k)
  PROVE  First({j \in DOMAIN faults : Matches(j, k)}) = i
<1> DEFINE on == {j \in DOMAIN faults : Matches(j, k)}
<1>1. i \in on /\ on \subseteq Nat /\ i \in Nat
  BY FaultFields DEF FirstMatch
<1>2. DOMAIN faults = 1 .. Len(faults) /\ Len(faults) \in Nat
  BY LenProperties DEF TypeOK
<1>3. \A j \in on : i <= j
  BY <1>1, <1>2 DEF FirstMatch
<1>4. \A x \in on : (\A j \in on : x <= j) => x = i
  BY <1>1, <1>3
<1> HIDE DEF on
<1>5. First(on) \in on /\ \A j \in on : First(on) <= j
  BY <1>1, <1>3 DEF First
<1>6. First(on) = i
  BY <1>4, <1>5
<1> QED BY <1>6 DEF on

\* Only key, number and time of birth decide which rules hold for a message.
LEMMA SameRules ==
  ASSUME NEW m, NEW c, c.key = m.key, c.id = m.id, c.born = m.born
  PROVE  RulesOn(c) = RulesOn(m)
BY DEF RulesOn

\* The rules a message was under when it was pushed stay what they are when
\* another rule is added.
LEMMA RulesStay ==
  ASSUME TypeOK, NEW r \in Rules, AddFault(r), NEW m, m.id \in Nat, m.id < nextId, NEW kind,
         AsRuled(m, kind)
  PROVE  AsRuled(m, kind)'
<1>1. /\ DOMAIN faults = 1 .. Len(faults) /\ Len(faults) \in Nat
      /\ DOMAIN faults' = 1 .. Len(faults) + 1
      /\ \A i \in 1 .. Len(faults) : faults'[i] = faults[i]
      /\ faults'[Len(faults) + 1].since = nextId
  <2>1. faults \in Seq(FaultEntry) /\ nextId \in Nat
    BY DEF TypeOK
  <2>2. [rule |-> r, since |-> nextId] \in FaultEntry
    BY <2>1 DEF FaultEntry
  <2> QED BY <2>1, <2>2, AppendProperties, LenProperties DEF AddFault
<1>2. ~(faults'[Len(faults) + 1].since <= m.id)
  BY <1>1 DEF TypeOK
<1>3. RulesOn(m)' = RulesOn(m)
  BY <1>1, <1>2 DEF RulesOn, InWindow
<1>4. First(RulesOn(m))' = First(RulesOn(m))
  BY <1>3 DEF First
<1>5. CASE RulesOn(m) = {}
  BY <1>3, <1>5 DEF AsRuled
<1>6. CASE RulesOn(m) # {}
  <2>1. /\ First(RulesOn(m)) \in DOMAIN faults /\ First(RulesOn(m)) \in DOMAIN faults'
        /\ faults'[First(RulesOn(m))] = faults[First(RulesOn(m))]
    BY <1>1, <1>6 DEF AsRuled
  <2> QED BY <1>3, <1>4, <1>6, <2>1 DEF AsRuled
<1> QED BY <1>5, <1>6

\* While no rule is added, what has been done to a message stays as ruled.
LEMMA RulingStays ==
  ASSUME faults' = faults, NEW m, NEW kind, AsRuled(m, kind)
  PROVE  AsRuled(m, kind)'
<1>1. RulesOn(m)' = RulesOn(m)
  BY DEF RulesOn, InWindow
<1> QED BY <1>1 DEF AsRuled, First

\* The log, when it grows by records that are as ruled.
LEMMA LogRuled ==
  ASSUME faults' = faults, nextId \in Nat, nextId' \in Nat, nextId <= nextId',
         \A n \in DOMAIN records : records[n].msg.id \in Nat,
         \A n \in DOMAIN records : RecordRuled(records[n]),
         NEW S, LogAdds(S), \A r \in S : RecordRuled(r)'
  PROVE  \A n \in DOMAIN records' : RecordRuled(records[n])'
<1>1. ASSUME NEW n \in DOMAIN records, records'[n] = records[n]
      PROVE  RecordRuled(records[n])'
  BY <1>1, RulingStays DEF RecordRuled
<1> QED BY <1>1 DEF LogAdds

-----------------------------------------------------------------------------
(* route(): whatever the first match does is as ruled.                     *)

\* Stamped with the time of its birth, the message without a rule is as ruled,
\* and so is what each kind of rule makes of it.
LEMMA RouteRuled ==
  ASSUME TypeOK, NEW h, Pushed(h), h \in Message, NEW m, m = [h EXCEPT !.ts = time]
  PROVE  /\ (\A i \in DOMAIN faults : ~Matches(i, m.key)) => AsRuled(m, "message")
         /\ \A i \in DOMAIN faults :
              LET r == faults[i].rule
                  c == IF r.flips THEN [m EXCEPT !.data = "flipped"] ELSE m
              IN  FirstMatch(i, m.key) =>
                    /\ r.kind = "drop" => AsRuled(m, "dropped")
                    /\ r.kind = "delay" => AsRuled([m EXCEPT !.ts = @ + r.delay], "message")
                    /\ r.kind = "corrupt" => AsRuled(c, "message")
<1>1. /\ m = [id |-> h.id, key |-> h.key, ts |-> time, data |-> "intact", born |-> time,
              from |-> h.from]
      /\ time \in Nat
  BY DEF Message, Pushed, TypeOK
<1>2. m.born = time /\ m.ts = time /\ m.data = "intact"
  BY <1>1
<1>3. \A j \in DOMAIN faults : faults[j].since <= m.id
  BY <1>1 DEF Pushed
<1>4. RulesOn(m) = {i \in DOMAIN faults : Matches(i, m.key)}
  BY <1>2, <1>3, RulesNow
<1>5. ASSUME \A i \in DOMAIN faults : ~Matches(i, m.key) PROVE AsRuled(m, "message")
  BY <1>2, <1>4, <1>5 DEF AsRuled
<1>6. ASSUME NEW i \in DOMAIN faults, FirstMatch(i, m.key),
             NEW c, c.key = m.key, c.id = m.id, c.born = time, NEW kind,
             (kind = "dropped") = (faults[i].rule.kind = "drop"),
             (c.data = "flipped") = (faults[i].rule.kind = "corrupt" /\ faults[i].rule.flips),
             c.ts = time + (IF faults[i].rule.kind = "delay" THEN faults[i].rule.delay ELSE 0)
      PROVE  AsRuled(c, kind)
  <2>1. RulesOn(c) = RulesOn(m)
    BY <1>2, <1>6, SameRules
  <2>2. First(RulesOn(c)) = i
    BY <1>4, <1>6, <2>1, FirstDecides
  <2>3. RulesOn(c) # {}
    BY <1>4, <1>6, <2>1 DEF FirstMatch
  <2> QED BY <1>6, <2>2, <2>3 DEF AsRuled
<1>7. ASSUME NEW i \in DOMAIN faults, FirstMatch(i, m.key)
      PROVE  LET r == faults[i].rule
                 c == IF r.flips THEN [m EXCEPT !.data = "flipped"] ELSE m
             IN  /\ r.kind = "drop" => AsRuled(m, "dropped")
                 /\ r.kind = "delay" => AsRuled([m EXCEPT !.ts = @ + r.delay], "message")
                 /\ r.kind = "corrupt" => AsRuled(c, "message")
  <2> DEFINE r == faults[i].rule
  <2>1. r.delay \in Nat /\ r.flips \in BOOLEAN /\ r.kind \in {"drop", "delay", "corrupt"}
    BY FaultFields
  <2>2. CASE r.kind = "drop"
    <3>1. /\ m.key = m.key /\ m.id = m.id /\ m.born = time
          /\ (m.data = "flipped") = (r.kind = "corrupt" /\ r.flips)
          /\ m.ts = time + (IF r.kind = "delay" THEN r.delay ELSE 0)
      BY <1>1, <1>2, <2>1, <2>2
    <3>2. ("dropped" = "dropped") = (r.kind = "drop")
      BY <2>2
    <3>3. AsRuled(m, "dropped")
      BY <1>6, <1>7, <3>1, <3>2
    <3> QED BY <2>2, <3>3
  <2>3. CASE r.kind = "delay"
    <3> DEFINE c == [m EXCEPT !.ts = @ + r.delay]
    <3>1. /\ c.key = m.key /\ c.id = m.id /\ c.born = time /\ c.data = "intact"
          /\ c.ts = time + r.delay
      BY <1>1
    <3> HIDE DEF c
    <3>2. AsRuled(c, "message")
      BY <1>6, <1>7, <2>3, <3>1
    <3> QED BY <2>3, <3>2 DEF c
  <2>4. CASE r.kind = "corrupt"
    <3> DEFINE c == IF r.flips THEN [m EXCEPT !.data = "flipped"] ELSE m
    <3>1. /\ c.key = m.key /\ c.id = m.id /\ c.born = time
          /\ (c.data = "flipped") = (r.kind = "corrupt" /\ r.flips)
          /\ c.ts = time + (IF r.kind = "delay" THEN r.delay ELSE 0)
          /\ ("message" = "dropped") = (r.kind = "drop")
      BY <1>1, <2>1, <2>4
    <3> HIDE DEF c
    <3>2. AsRuled(c, "message")
      BY <1>6, <1>7, <2>4, <3>1
    <3> QED BY <2>4, <3>2 DEF c
  <2> QED BY <2>1, <2>2, <2>3, <2>4
<1> QED BY <1>5, <1>7

-----------------------------------------------------------------------------
(* The invariant through every step.                                       *)

LEMMA Numbers ==
  ASSUME TypeOK
  PROVE  /\ nextId \in Nat /\ time \in Nat
         /\ \A n \in DOMAIN records : records[n].msg \in Message /\ records[n].msg.id \in Nat
         /\ \A d \in delayed \cup due : d.msg \in Message /\ d.msg.id \in Nat
         /\ \A i \in DOMAIN outbound : outbound[i] \in Message /\ outbound[i].id \in Nat
<1>1. ASSUME NEW n \in DOMAIN records PROVE records[n].msg \in Message
  <2>1. records \in Seq(Record) /\ n \in 1 .. Len(records)
    BY LenProperties DEF TypeOK
  <2>2. records[n] \in Record
    BY <2>1, ElementOfSeq
  <2> QED BY <2>2 DEF Record
<1>2. ASSUME NEW i \in DOMAIN outbound PROVE outbound[i] \in Message
  BY ElementOfSeq, LenProperties DEF TypeOK
<1>3. ASSUME NEW d \in delayed \cup due PROVE d.msg \in Message
  BY DEF TypeOK, Held
<1> QED BY <1>1, <1>2, <1>3, MessageFields DEF TypeOK

\* What is held stays as ruled while no rule is added.
LEMMA HeldStays ==
  ASSUME TypeOK, Ruled, faults' = faults, nextId' \in Nat, nextId <= nextId',
         NEW d \in delayed \cup due
  PROVE  HeldRuled(d)'
BY Numbers, RulingStays DEF Ruled, HeldRuled

LEMMA RecordsStay ==
  ASSUME TypeOK, Ruled, faults' = faults, nextId' \in Nat, nextId <= nextId', records' = records
  PROVE  \A n \in DOMAIN records' : RecordRuled(records[n])'
BY Numbers, RulingStays DEF Ruled, RecordRuled

\* The last two conjuncts and the log, of steps that leave the rules alone.
LEMMA RuledFrame ==
  ASSUME TypeOK, Ruled, UNCHANGED <<records, faults, nextId>>,
         delayed' \cup due' \subseteq delayed \cup due,
         outbound' = outbound, outbound = <<>> \/ time' = time,
         pc' \in {"idle", "due"} => outbound = <<>>
  PROVE  Ruled'
<1>1. nextId' \in Nat /\ nextId <= nextId'
  BY Numbers
<1>2. \A n \in DOMAIN records' : RecordRuled(records[n])'
  BY <1>1, RecordsStay
<1>3. \A d \in delayed' \cup due' : HeldRuled(d)'
  BY <1>1, HeldStays
<1>4. \A i \in DOMAIN outbound' : Pushed(outbound[i])'
  BY DEF Ruled, Pushed
<1> QED BY <1>2, <1>3, <1>4 DEF Ruled

LEMMA AddFaultRuled ==
  ASSUME TypeOK, Ruled, NEW r \in Rules, AddFault(r)
  PROVE  Ruled'
<1>1. /\ pc = "idle" /\ UNCHANGED <<time, pc, outbound, delayed, due, records, nextId>>
      /\ nextId \in Nat /\ outbound = <<>>
  BY Numbers DEF AddFault, Ruled
<1>2. ASSUME NEW n \in DOMAIN records PROVE RecordRuled(records[n])'
  BY <1>1, <1>2, Numbers, RulesStay DEF Ruled, RecordRuled
<1>3. ASSUME NEW d \in delayed \cup due PROVE HeldRuled(d)'
  BY <1>1, <1>3, Numbers, RulesStay DEF Ruled, HeldRuled
<1>4. ASSUME NEW j \in DOMAIN faults' PROVE faults'[j].since <= nextId
  <2>1. /\ DOMAIN faults = 1 .. Len(faults) /\ Len(faults) \in Nat
        /\ DOMAIN faults' = 1 .. Len(faults) + 1
        /\ \A i \in 1 .. Len(faults) : faults'[i] = faults[i]
        /\ faults'[Len(faults) + 1].since = nextId
    <3>1. faults \in Seq(FaultEntry) /\ [rule |-> r, since |-> nextId] \in FaultEntry
      BY <1>1 DEF TypeOK, FaultEntry
    <3> QED BY <3>1, AppendProperties, LenProperties DEF AddFault
  <2> QED BY <1>1, <2>1 DEF Ruled
<1>5. DOMAIN outbound' = {}
  BY <1>1
<1> QED BY <1>1, <1>2, <1>3, <1>4, <1>5 DEF Ruled

LEMMA InjectRuled ==
  ASSUME TypeOK, Ruled, NEW k \in Keys, Inject(k)
  PROVE  Ruled'
<1> DEFINE m == [NewMessage(nextId, k, 0) EXCEPT !.ts = time]
<1>1. m \in Message /\ m.id = nextId /\ m.from = 0
  BY DEF NewMessage, Message, TypeOK
<1>0. PICK e : e = Entry("message", m)
  OBVIOUS
<1>2. e \in Record /\ e.msg.id = nextId /\ e.msg.from = 0
  BY <1>0, <1>1, EntryType DEF Entry
<1>3. /\ records' = Append(records, e) /\ nextId' = nextId + 1 /\ pc = "idle"
      /\ UNCHANGED <<time, pc, outbound, delayed, due, faults>>
  BY <1>0 DEF Inject
<1> HIDE DEF m
<1>4. nextId \in Nat /\ nextId' \in Nat /\ nextId <= nextId'
  BY <1>3, Numbers
<1>5. RecordRuled(e)'
  BY <1>2, <1>3, <1>4 DEF RecordRuled
<1>6. LogAdds({e})
  BY <1>2, <1>3, LogAppend
<1>7. \A n \in DOMAIN records : records[n].msg.id \in Nat /\ RecordRuled(records[n])
  BY Numbers DEF Ruled
<1>8. \A n \in DOMAIN records' : RecordRuled(records[n])'
  BY <1>3, <1>4, <1>5, <1>6, <1>7, LogRuled
<1>9. \A d \in delayed' \cup due' : HeldRuled(d)'
  BY <1>3, <1>4, HeldStays
<1>10. outbound' = <<>> /\ \A j \in DOMAIN faults : faults[j].since \in Nat
  BY <1>3, FaultFields DEF Ruled
<1> QED BY <1>3, <1>4, <1>8, <1>9, <1>10 DEF Ruled

\* What an update pushes is numbered on from the messages there are.
LEMMA UpdatePushes ==
  ASSUME TypeOK, NEW burst \in Bursts, UpdateEcu(burst)
  PROVE  \E new :
           /\ Len(burst) \in Nat
           /\ \A i \in 1 .. Len(burst) :
                /\ new[i] \in Message /\ new[i].id = nextId + i - 1
                /\ new[i].born = time /\ new[i].data = "intact"
           /\ Len(outbound) \in Nat /\ DOMAIN outbound = 1 .. Len(outbound)
           /\ DOMAIN outbound' = 1 .. Len(outbound) + Len(burst)
           /\ \A i \in 1 .. Len(outbound) + Len(burst) :
                outbound'[i] = IF i <= Len(outbound) THEN outbound[i]
                                                     ELSE new[i - Len(outbound)]
<1>0. PICK new : new = [i \in 1 .. Len(burst) |-> NewMessage(nextId + i - 1, burst[i], turn)]
  OBVIOUS
<1>1. /\ Len(burst) \in Nat /\ nextId \in Nat /\ time \in Nat
      /\ \A i \in 1 .. Len(burst) : burst[i] \in Keys
  BY NetworkSimAssumption, LenProperties, ElementOfSeq, Numbers
<1>2. ASSUME NEW i \in 1 .. Len(burst)
      PROVE  /\ new[i] \in Message /\ new[i].id = nextId + i - 1
             /\ new[i].born = time /\ new[i].data = "intact"
  <2>1. new[i] = NewMessage(nextId + i - 1, burst[i], turn)
    BY <1>0
  <2>2. nextId + i - 1 \in Nat /\ burst[i] \in Keys /\ turn \in Nat
    BY <1>1 DEF TypeOK
  <2> QED BY <1>1, <2>1, <2>2, NewMessageType DEF NewMessage
<1>3. new \in Seq(Message) /\ Len(new) = Len(burst)
  BY <1>0, <1>1, <1>2, SeqDef
<1>4. /\ outbound \in Seq(Message) /\ Len(outbound) \in Nat
      /\ DOMAIN outbound = 1 .. Len(outbound)
  BY LenProperties DEF TypeOK
<1>5. /\ outbound \o new \in Seq(Message)
      /\ Len(outbound \o new) = Len(outbound) + Len(new)
      /\ \A i \in 1 .. Len(outbound) + Len(new) :
           (outbound \o new)[i] = IF i <= Len(outbound) THEN outbound[i]
                                                       ELSE new[i - Len(outbound)]
  BY <1>3, <1>4, ConcatProperties
<1>6. DOMAIN (outbound \o new) = 1 .. Len(outbound) + Len(new)
  BY <1>5, LenProperties
<1>7. outbound' = outbound \o new
  BY <1>0 DEF UpdateEcu
<1> QED BY <1>1, <1>2, <1>3, <1>4, <1>5, <1>6, <1>7

LEMMA UpdateRuled ==
  ASSUME TypeOK, Ruled, NEW burst \in Bursts, UpdateEcu(burst)
  PROVE  Ruled'
<1>0. nextId \in Nat /\ time \in Nat
  BY Numbers
<1>1. PICK new :
        /\ Len(burst) \in Nat
        /\ \A i \in 1 .. Len(burst) :
             /\ new[i] \in Message /\ new[i].id = nextId + i - 1
             /\ new[i].born = time /\ new[i].data = "intact"
        /\ Len(outbound) \in Nat /\ DOMAIN outbound = 1 .. Len(outbound)
        /\ DOMAIN outbound' = 1 .. Len(outbound) + Len(burst)
        /\ \A i \in 1 .. Len(outbound) + Len(burst) :
             outbound'[i] = IF i <= Len(outbound) THEN outbound[i] ELSE new[i - Len(outbound)]
  BY UpdatePushes
<1>4. /\ nextId' = nextId + Len(burst) /\ pc = "update"
      /\ UNCHANGED <<time, pc, delayed, due, records, faults>>
  BY DEF UpdateEcu
<1>5. nextId' \in Nat /\ nextId <= nextId'
  BY <1>0, <1>1, <1>4
<1>6. ASSUME NEW i \in DOMAIN outbound'
      PROVE  \/ \E j \in DOMAIN outbound : outbound'[i] = outbound[j]
             \/ \E j \in 1 .. Len(burst) : outbound'[i] = new[j]
  <2>1. i \in 1 .. Len(outbound) \/ (~(i <= Len(outbound)) /\ i - Len(outbound) \in 1 .. Len(burst))
    BY <1>1
  <2> QED BY <1>1, <2>1
<1>8. ASSUME NEW j \in 1 .. Len(burst) PROVE Pushed(new[j])'
  <2>1. nextId <= new[j].id /\ new[j].id < nextId' /\ new[j].id \in Nat
    BY <1>0, <1>1, <1>4
  <2>2. \A f \in DOMAIN faults : faults[f].since \in Nat /\ faults[f].since <= nextId
    BY FaultFields DEF Ruled
  <2> QED BY <1>0, <1>1, <1>4, <2>1, <2>2 DEF Pushed
<1>9. \A i \in DOMAIN outbound' : Pushed(outbound[i])'
  <2> SUFFICES ASSUME NEW i \in DOMAIN outbound' PROVE Pushed(outbound[i])'
    OBVIOUS
  <2>1. CASE \E j \in DOMAIN outbound : outbound'[i] = outbound[j]
    <3>1. PICK j \in DOMAIN outbound : outbound'[i] = outbound[j]
      BY <2>1
    <3>2. PICK x : x = outbound[j]
      OBVIOUS
    <3>3. Pushed(x)
      BY <3>2 DEF Ruled
    <3>4. x.id \in Nat
      BY <3>2, Numbers
    <3>5. Pushed(x)'
      BY <1>0, <1>4, <1>5, <3>3, <3>4 DEF Pushed
    <3> QED BY <3>1, <3>2, <3>5 DEF Pushed
  <2>2. CASE \E j \in 1 .. Len(burst) : outbound'[i] = new[j]
    <3>1. PICK j \in 1 .. Len(burst) : outbound'[i] = new[j]
      BY <2>2
    <3>2. Pushed(new[j])'
      BY <1>8
    <3> QED BY <3>1, <3>2 DEF Pushed
  <2> QED BY <1>6, <2>1, <2>2
<1>10. \A n \in DOMAIN records' : RecordRuled(records[n])'
  BY <1>4, <1>5, RecordsStay
<1>11. \A d \in delayed' \cup due' : HeldRuled(d)'
  BY <1>4, <1>5, HeldStays
<1>12. \A j \in DOMAIN faults' : faults'[j].since <= nextId'
  BY <1>0, <1>4, <1>5, FaultFields DEF Ruled
<1> QED BY <1>4, <1>9, <1>10, <1>11, <1>12 DEF Ruled

\* route(): the message leaves outbound, and what becomes of it is as ruled.
LEMMA RouteRuledStep ==
  ASSUME TypeOK, Ruled, Route
  PROVE  Ruled'
<1>1. /\ outbound # <<>> /\ outbound \in Seq(Message) /\ outbound' = Tail(outbound)
      /\ UNCHANGED <<time, pc, due, faults, nextId>> /\ pc = "route"
  BY DEF Route, TypeOK
<1>2. /\ Head(outbound) = outbound[1] /\ 1 \in DOMAIN outbound
      /\ \A i \in DOMAIN outbound' : i + 1 \in DOMAIN outbound /\ outbound'[i] = outbound[i + 1]
  BY <1>1, HeadTailProperties, EmptySeq, LenProperties
<1>3. PICK h : h = Head(outbound)
  OBVIOUS
<1>4. Pushed(h) /\ h \in Message
  BY <1>2, <1>3, Numbers DEF Ruled
<1>5. PICK m : m = [h EXCEPT !.ts = time]
  OBVIOUS
<1>6. /\ m \in Message /\ m.id \in Nat /\ m.id = h.id /\ m.id < nextId /\ nextId \in Nat
      /\ time \in Nat
  BY <1>4, <1>5, StampType, Numbers DEF Message, Pushed
<1>7. /\ \A i \in DOMAIN outbound' : Pushed(outbound[i])'
  <2> SUFFICES ASSUME NEW i \in DOMAIN outbound' PROVE Pushed(outbound[i])'
    OBVIOUS
  <2>1. PICK x : x = outbound[i + 1]
    OBVIOUS
  <2>2. Pushed(x)
    BY <1>2, <2>1 DEF Ruled
  <2>3. Pushed(x)'
    BY <1>1, <2>2 DEF Pushed
  <2>4. outbound'[i] = x
    BY <1>2, <2>1
  <2> QED BY <2>3, <2>4 DEF Pushed
<1>8. nextId' \in Nat /\ nextId <= nextId'
  BY <1>1, <1>6
<1>9. \A n \in DOMAIN records : records[n].msg.id \in Nat /\ RecordRuled(records[n])
  BY Numbers DEF Ruled
<1>10. ASSUME NEW S, LogAdds(S), \A r \in S : RecordRuled(r)',
              \A d \in delayed' : d \in delayed \/ HeldRuled(d)'
       PROVE  Ruled'
  <2>1. \A n \in DOMAIN records' : RecordRuled(records[n])'
    BY <1>1, <1>8, <1>9, <1>10, LogRuled
  <2>2. \A d \in delayed' \cup due' : HeldRuled(d)'
    BY <1>1, <1>8, <1>10, HeldStays
  <2>3. \A j \in DOMAIN faults' : faults'[j].since <= nextId'
    BY <1>1 DEF Ruled
  <2> QED BY <1>1, <1>7, <2>1, <2>2, <2>3 DEF Ruled
<1>11. ASSUME NEW kind \in {"message", "dropped", "delayed", "corrupted"}, NEW c \in Message,
              c.id = m.id, kind \in {"message", "dropped"} => AsRuled(c, kind)
       PROVE  \A r \in {Entry(kind, c)} : r \in Record /\ RecordRuled(r)'
  <2> SUFFICES ASSUME NEW r, r = Entry(kind, c) PROVE r \in Record /\ RecordRuled(r)'
    OBVIOUS
  <2>1. r \in Record /\ r.msg = c /\ r.kind = kind
    BY EntryType DEF Entry
  <2>2. kind \in {"message", "dropped"} => AsRuled(c, kind)'
    BY <1>1, <1>11, RulingStays
  <2> QED BY <1>1, <1>6, <1>11, <2>1, <2>2 DEF RecordRuled
<1>12. CASE RouteClean(m)
  <2>1. AsRuled(m, "message")
    BY <1>4, <1>5, <1>12, RouteRuled DEF RouteClean
  <2>2. /\ records' = Append(records, Entry("message", m)) /\ delayed' = delayed
    BY <1>12 DEF RouteClean
  <2>3. \A r \in {Entry("message", m)} : r \in Record /\ RecordRuled(r)'
    BY <1>6, <1>11, <2>1
  <2>4. LogAdds({Entry("message", m)})
    BY <2>2, <2>3, LogAppend
  <2> QED BY <1>10, <2>2, <2>3, <2>4
<1>13. ASSUME NEW i \in DOMAIN faults, FirstMatch(i, m.key), RouteDrop(m, faults[i].rule)
       PROVE  Ruled'
  <2>1. AsRuled(m, "dropped")
    BY <1>4, <1>5, <1>13, RouteRuled DEF RouteDrop
  <2>2. records' = Append(records, Entry("dropped", m)) /\ delayed' = delayed
    BY <1>13 DEF RouteDrop
  <2>3. \A r \in {Entry("dropped", m)} : r \in Record /\ RecordRuled(r)'
    BY <1>6, <1>11, <2>1
  <2>4. LogAdds({Entry("dropped", m)})
    BY <2>2, <2>3, LogAppend
  <2> QED BY <1>10, <2>2, <2>3, <2>4
<1>14. ASSUME NEW i \in DOMAIN faults, FirstMatch(i, m.key), RouteDelay(m, faults[i].rule)
       PROVE  Ruled'
  <2>1. PICK c : c = [m EXCEPT !.ts = @ + faults[i].rule.delay]
    OBVIOUS
  <2>2. AsRuled(c, "message")
    BY <1>4, <1>5, <1>14, <2>1, RouteRuled DEF RouteDelay
  <2>3. c.id = m.id
    BY <1>6, <2>1 DEF Message
  <2>4. /\ records' = Append(records, Entry("delayed", m))
        /\ delayed' = delayed \cup {[at |-> time + faults[i].rule.delay, msg |-> c]}
    BY <1>14, <2>1 DEF RouteDelay
  <2>5. \A r \in {Entry("delayed", m)} : r \in Record /\ RecordRuled(r)'
    BY <1>6, <1>11
  <2>6. LogAdds({Entry("delayed", m)})
    BY <2>4, <2>5, LogAppend
  <2>7. AsRuled(c, "message")'
    BY <1>1, <2>2, RulingStays
  <2>8. ASSUME NEW d \in delayed', d \notin delayed PROVE HeldRuled(d)'
    <3>1. d.msg = c
      BY <2>4, <2>8
    <3> QED BY <1>1, <1>6, <2>3, <2>7, <3>1 DEF HeldRuled
  <2> QED BY <1>10, <2>5, <2>6, <2>8
<1>15. ASSUME NEW i \in DOMAIN faults, FirstMatch(i, m.key), RouteCorrupt(m, faults[i].rule)
       PROVE  Ruled'
  <2>1. PICK c : c = IF faults[i].rule.flips THEN [m EXCEPT !.data = "flipped"] ELSE m
    OBVIOUS
  <2>2. AsRuled(c, "message")
    BY <1>4, <1>5, <1>15, <2>1, RouteRuled DEF RouteCorrupt
  <2>3. c \in Message /\ c.id = m.id
    BY <1>6, <2>1 DEF Message
  <2>4. /\ records' = records \o <<Entry("corrupted", c), Entry("message", c)>>
        /\ delayed' = delayed
    BY <1>15, <2>1 DEF RouteCorrupt
  <2>5. /\ \A r \in {Entry("corrupted", c)} : r \in Record /\ RecordRuled(r)'
        /\ \A r \in {Entry("message", c)} : r \in Record /\ RecordRuled(r)'
    BY <1>6, <1>11, <2>2, <2>3
  <2>6. LogAdds({Entry("corrupted", c), Entry("message", c)})
    BY <2>4, <2>5, LogAppendTwo
  <2>7. \A r \in {Entry("corrupted", c), Entry("message", c)} : RecordRuled(r)'
    BY <2>5
  <2> QED BY <1>10, <2>4, <2>6, <2>7
<1>16. \/ RouteClean(m)
       \/ \E i \in DOMAIN faults : /\ FirstMatch(i, m.key)
                                   /\ \/ RouteDrop(m, faults[i].rule)
                                      \/ RouteDelay(m, faults[i].rule)
                                      \/ RouteCorrupt(m, faults[i].rule)
  BY <1>3, <1>5, Zenon DEF Route
<1> QED BY <1>12, <1>13, <1>14, <1>15, <1>16

LEMMA DeliverDueRuled ==
  ASSUME TypeOK, Ruled, DeliverDue
  PROVE  Ruled'
<1>1. PICK d \in due : /\ records' = Append(records, Entry("message", d.msg))
                       /\ due' = due \ {d}
  BY DEF DeliverDue
<1>2. /\ UNCHANGED <<time, pc, outbound, delayed, faults, nextId>> /\ pc = "due"
      /\ nextId' \in Nat /\ nextId <= nextId'
  BY Numbers DEF DeliverDue
<1>3. PICK e : e = Entry("message", d.msg)
  OBVIOUS
<1>4. e \in Record /\ e.msg = d.msg /\ e.kind = "message" /\ d.msg.id \in Nat
  BY <1>3, Numbers, EntryType DEF Entry
<1>5. HeldRuled(d)'
  BY <1>2, HeldStays
<1>6. RecordRuled(e)'
  BY <1>4, <1>5 DEF HeldRuled, RecordRuled
<1>7. LogAdds({e})
  BY <1>1, <1>3, <1>4, LogAppend
<1>8. \A n \in DOMAIN records : records[n].msg.id \in Nat /\ RecordRuled(records[n])
  BY Numbers DEF Ruled
<1>9. \A n \in DOMAIN records' : RecordRuled(records[n])'
  BY <1>2, <1>6, <1>7, <1>8, LogRuled
<1>10. \A x \in delayed' \cup due' : HeldRuled(x)'
  BY <1>1, <1>2, HeldStays
<1>11. outbound' = <<>> /\ outbound = <<>>
  BY <1>2 DEF Ruled
<1> QED BY <1>2, <1>9, <1>10, <1>11 DEF Ruled

LEMMA RuledStep == TypeOK /\ Ruled /\ [Next]_vars => Ruled'
<1> SUFFICES ASSUME TypeOK, Ruled, [Next]_vars PROVE Ruled'
  OBVIOUS
<1>1. CASE UNCHANGED <<time, pc, outbound, delayed, due, records, faults, nextId>>
  BY <1>1, RuledFrame DEF Ruled
<1>2. CASE \E t \in RunTargets : RunUntil(t)
  BY <1>2, RuledFrame DEF RunUntil, Ruled
<1>3. CASE UpdatesDone
  BY <1>3, RuledFrame DEF UpdatesDone
<1>4. CASE TakeDue
  <2>1. /\ delayed' \cup due' \subseteq delayed \cup due
        /\ UNCHANGED <<records, faults, nextId, outbound>> /\ outbound = <<>>
    BY <1>4 DEF TakeDue
  <2> QED BY <2>1, RuledFrame
<1>5. CASE EndTick
  <2>1. outbound = <<>> /\ UNCHANGED <<delayed, due, records, faults, nextId, outbound>>
    BY <1>5 DEF EndTick, Ruled
  <2> QED BY <2>1, RuledFrame
<1> QED BY <1>1, <1>2, <1>3, <1>4, <1>5, AddFaultRuled, InjectRuled, UpdateRuled, RouteRuledStep,
           DeliverDueRuled DEF Next, Call, Tick, vars, Attach, Subscribe

\* What an ECU sent is dropped, delayed, corrupted or delivered as the earliest
\* added of the rules says that held when it was sent, however rules overlap,
\* expire or are added while it is held.
THEOREM FirstRuleDecides == Spec => []FirstActiveRuleDecides
<1>1. Init => Ruled
  <2> SUFFICES ASSUME Init PROVE Ruled
    OBVIOUS
  <2> QED BY DEF Init, Ruled
<1>2. Ruled => FirstActiveRuleDecides
  BY DEF Ruled, RecordRuled, AsRuled, FirstActiveRuleDecides, First
<1> QED BY <1>1, <1>2, TypeCorrect, RuledStep, PTL DEF Spec

-----------------------------------------------------------------------------
(* What the ECUs are handed.                                               *)

\* An inbox holds only what was recorded as delivered,
Known(box) == \A i \in DOMAIN box : \E n \in Delivered : records[n].msg = box[i]

\* in the recorder's order,
InOrder(box) ==
  \A i, j \in DOMAIN box :
    i < j => \E m, n \in Delivered : m <= n /\ records[m].msg = box[i] /\ records[n].msg = box[j]

\* and each message as often as its ECU was subscribed to the key by then.
Places(box, m) == {i \in DOMAIN box : box[i] = m}
Subscribed(e, k, n) == {s \in DOMAIN subs[k] : subs[k][s].ecu = e /\ subs[k][s].since < n}

Counted(e, box) ==
  \A n \in Delivered : Cardinality(Places(box, records[n].msg))
                         = Cardinality(Subscribed(e, records[n].msg.key, n))

Heard ==
  /\ \A k \in Keys : \A s \in DOMAIN subs[k] : subs[k][s].since <= Len(records)
  /\ \A e \in DOMAIN inbox : /\ Known(inbox[e])
                             /\ InOrder(inbox[e])
                             /\ Counted(e, inbox[e])

\* A record p of a delivery of c in this tick is added behind the log; or none is.
Delivers(p, c) ==
  /\ p \in Nat /\ Len(records) < p /\ Len(records) <= Len(records')
  /\ Delivered' = Delivered \cup {p} /\ records'[p].msg = c /\ records'[p].tick = time
  /\ \A n \in Delivered : records'[n] = records[n]

DeliversNone ==
  /\ Len(records) <= Len(records')
  /\ Delivered' = Delivered
  /\ \A n \in Delivered : records'[n] = records[n]

LEMMA DeliveredFacts ==
  ASSUME TypeOK, NEW n \in Delivered
  PROVE  /\ n \in Nat /\ n <= Len(records) /\ Len(records) \in Nat
         /\ records[n].msg \in Message /\ records[n].msg.key \in Keys
         /\ records[n].msg.id \in DoneIds
<1>1. records \in Seq(Record) /\ n \in 1 .. Len(records) /\ Len(records) \in Nat
  BY LenProperties DEF TypeOK, Delivered
<1>2. records[n] \in Record
  BY <1>1, ElementOfSeq
<1>3. records[n].msg \in Message /\ n \in Settled
  BY <1>2 DEF Record, Delivered, Settled
<1> QED BY <1>1, <1>3, MessageFields DEF DoneIds

LEMMA AppendDelivers ==
  ASSUME TypeOK, NEW c \in Message, records' = Append(records, Entry("message", c))
  PROVE  \E p : Delivers(p, c)
<1>1. PICK e : e = Entry("message", c)
  OBVIOUS
<1>2. e \in Record /\ e.kind = "message" /\ e.msg = c /\ e.tick = time
  BY <1>1, EntryType DEF Entry
<1>3. /\ DOMAIN records' = DOMAIN records \cup {Len(records) + 1}
      /\ records'[Len(records) + 1] = e /\ Len(records) + 1 \notin DOMAIN records
      /\ LogAdds({e})
  BY <1>1, <1>2, LogAppend
<1>4. records \in Seq(Record) /\ Len(records) \in Nat /\ DOMAIN records = 1 .. Len(records)
  BY LenProperties DEF TypeOK
<1>5. Len(records') = Len(records) + 1
  BY <1>1, <1>2, <1>4, AppendProperties
<1>6. \A n \in DOMAIN records : n \in DOMAIN records' /\ records'[n] = records[n]
  BY <1>3 DEF LogAdds
<1>7. Delivered' = Delivered \cup {Len(records) + 1}
  BY <1>2, <1>3, <1>6 DEF Delivered
<1>8. \A n \in Delivered : records'[n] = records[n]
  BY <1>6 DEF Delivered
<1>9. PICK p : p = Len(records) + 1
  OBVIOUS
<1>10. /\ p \in Nat /\ Len(records) < p /\ Len(records) <= Len(records')
       /\ Delivered' = Delivered \cup {p}
  BY <1>4, <1>5, <1>7, <1>9
<1>11. records'[p].msg = c /\ records'[p].tick = time
  BY <1>2, <1>3, <1>9
<1> QED BY <1>8, <1>10, <1>11 DEF Delivers

LEMMA CorruptDelivers ==
  ASSUME TypeOK, NEW c \in Message,
         records' = records \o <<Entry("corrupted", c), Entry("message", c)>>
  PROVE  \E p : Delivers(p, c)
<1>1. PICK e, f : e = Entry("corrupted", c) /\ f = Entry("message", c)
  OBVIOUS
<1>2. /\ e \in Record /\ e.kind = "corrupted" /\ f \in Record /\ f.kind = "message" /\ f.msg = c
      /\ f.tick = time /\ records' = records \o <<e, f>>
  BY <1>1, EntryType DEF Entry
<1>3. /\ DOMAIN records' = DOMAIN records \cup {Len(records) + 1, Len(records) + 2}
      /\ records'[Len(records) + 1] = e /\ records'[Len(records) + 2] = f
      /\ Len(records) + 1 \notin DOMAIN records /\ Len(records) + 2 \notin DOMAIN records
      /\ LogAdds({e, f})
  BY <1>2, LogAppendTwo
<1>4. records \in Seq(Record) /\ Len(records) \in Nat /\ DOMAIN records = 1 .. Len(records)
  BY LenProperties DEF TypeOK
<1>5. Len(records') = Len(records) + 2
  <2>1. <<e, f>> \in Seq(Record) /\ Len(<<e, f>>) = 2
    BY <1>2
  <2> QED BY <1>2, <1>4, <2>1, ConcatProperties
<1>6. \A n \in DOMAIN records : n \in DOMAIN records' /\ records'[n] = records[n]
  BY <1>3 DEF LogAdds
<1>7. Delivered' = Delivered \cup {Len(records) + 2}
  BY <1>2, <1>3, <1>6 DEF Delivered
<1>8. \A n \in Delivered : records'[n] = records[n]
  BY <1>6 DEF Delivered
<1>9. PICK p : p = Len(records) + 2
  OBVIOUS
<1>10. /\ p \in Nat /\ Len(records) < p /\ Len(records) <= Len(records')
       /\ Delivered' = Delivered \cup {p}
  BY <1>4, <1>5, <1>7, <1>9
<1>11. records'[p].msg = c /\ records'[p].tick = time
  BY <1>2, <1>3, <1>9
<1> QED BY <1>8, <1>10, <1>11 DEF Delivers

LEMMA OtherDeliversNone ==
  ASSUME TypeOK, NEW c \in Message, NEW kind \in {"dropped", "delayed"},
         records' = Append(records, Entry(kind, c))
  PROVE  DeliversNone
<1>1. PICK e : e = Entry(kind, c)
  OBVIOUS
<1>2. e \in Record /\ e.kind # "message"
  BY <1>1, EntryType DEF Entry
<1>3. /\ DOMAIN records' = DOMAIN records \cup {Len(records) + 1}
      /\ records'[Len(records) + 1] = e
      /\ LogAdds({e})
  BY <1>1, <1>2, LogAppend
<1>4. records \in Seq(Record) /\ Len(records) \in Nat
  BY LenProperties DEF TypeOK
<1>5. Len(records') = Len(records) + 1
  BY <1>1, <1>2, <1>4, AppendProperties
<1>6. \A n \in DOMAIN records : n \in DOMAIN records' /\ records'[n] = records[n]
  BY <1>3 DEF LogAdds
<1>7. Delivered' = Delivered
  BY <1>2, <1>3, <1>6 DEF Delivered
<1> QED BY <1>4, <1>5, <1>6, <1>7 DEF DeliversNone, Delivered

-----------------------------------------------------------------------------
(* Steps that deliver nothing.                                             *)

LEMMA SinceStays ==
  ASSUME TypeOK, TypeOK', Heard, subs' = subs, Len(records) <= Len(records')
  PROVE  \A k \in Keys : \A s \in DOMAIN subs'[k] : subs'[k][s].since <= Len(records')
<1> SUFFICES ASSUME NEW k \in Keys, NEW s \in DOMAIN subs[k]
             PROVE  subs[k][s].since <= Len(records')
  OBVIOUS
<1>1. subs[k] \in Seq(Subscription) /\ s \in 1 .. Len(subs[k])
  BY LenProperties DEF TypeOK
<1>2. subs[k][s] \in Subscription
  BY <1>1, ElementOfSeq
<1>3. subs[k][s].since \in Nat /\ Len(records) \in Nat /\ Len(records') \in Nat
  BY <1>2, LenProperties DEF TypeOK, Subscription
<1> QED BY <1>3 DEF Heard

LEMMA NoneHeard ==
  ASSUME TypeOK, TypeOK', Heard, DeliversNone, UNCHANGED <<subs, inbox>>
  PROVE  Heard'
<1>1. \A k \in Keys : \A s \in DOMAIN subs'[k] : subs'[k][s].since <= Len(records')
  BY SinceStays DEF DeliversNone
<1>2. ASSUME NEW e \in DOMAIN inbox'
      PROVE  Known(inbox[e])' /\ InOrder(inbox[e])' /\ Counted(e, inbox[e])'
  <2>1. PICK box : box = inbox[e] /\ Known(box) /\ InOrder(box) /\ Counted(e, box)
    BY DEF Heard
  <2>2. Known(box)' /\ InOrder(box)'
    BY <2>1 DEF Known, InOrder, DeliversNone
  <2>3. \A n \in Delivered' : records'[n].msg = records[n].msg /\ n \in Delivered
    BY DEF DeliversNone
  <2>4. \A k, n : Subscribed(e, k, n)' = Subscribed(e, k, n)
    BY DEF Subscribed
  <2>5. Counted(e, box)'
    BY <2>1, <2>3, <2>4 DEF Counted, Places
  <2> QED BY <2>1, <2>2, <2>5 DEF Known, InOrder, Counted, Places
<1> QED BY <1>1, <1>2 DEF Heard

-----------------------------------------------------------------------------
(* Steps that deliver.                                                     *)

\* One inbox, after a message nobody has seen was delivered.
LEMMA BoxHeard ==
  ASSUME TypeOK, Heard, NEW c \in Message, c.id \notin DoneIds, NEW p, Delivers(p, c),
         subs' = subs, NEW e \in DOMAIN inbox, NEW new,
         new = inbox[e] \o Repeat(c, Copies(e, c.key))
  PROVE  Known(new)' /\ InOrder(new)' /\ Counted(e, new)'
<1>1. PICK box, k : box = inbox[e] /\ k = Copies(e, c.key)
  OBVIOUS
<1>2. box \in Seq(Message) /\ Known(box) /\ InOrder(box) /\ Counted(e, box)
  <2>1. e \in 1 .. Len(inbox) /\ inbox \in Seq(Seq(Message))
    BY LenProperties DEF TypeOK
  <2> QED BY <1>1, <2>1, ElementOfSeq DEF Heard
<1>3. c.key \in Keys /\ subs[c.key] \in Seq(Subscription)
  BY MessageFields DEF TypeOK
<1>4. k \in Nat
  BY <1>1, <1>3, PositionsFinite DEF Copies
<1>5. /\ Len(box) \in Nat /\ DOMAIN box = 1 .. Len(box)
      /\ DOMAIN new = 1 .. Len(box) + k
      /\ \A i \in 1 .. Len(box) : new[i] = box[i]
      /\ \A i \in Len(box) + 1 .. Len(box) + k : new[i] = c
  <2>0. new = box \o Repeat(c, k)
    BY <1>1
  <2>1. Len(box) \in Nat /\ DOMAIN box = 1 .. Len(box)
    BY <1>2, LenProperties
  <2>2. Repeat(c, k) \in Seq(Message) /\ Len(Repeat(c, k)) = k
    <3>1. Repeat(c, k) \in Seq(Message)
      BY <1>4, RepeatType
    <3>2. DOMAIN Repeat(c, k) = 1 .. k
      BY DEF Repeat
    <3> QED BY <1>4, <3>1, <3>2, LenProperties
  <2>3. /\ new \in Seq(Message) /\ Len(new) = Len(box) + k
        /\ \A i \in 1 .. Len(box) + k :
             new[i] = IF i <= Len(box) THEN box[i] ELSE Repeat(c, k)[i - Len(box)]
    BY <1>2, <2>0, <2>2, ConcatProperties
  <2>4. DOMAIN new = 1 .. Len(box) + k
    BY <1>4, <2>1, <2>3, LenProperties
  <2>5. ASSUME NEW i \in 1 .. Len(box) PROVE new[i] = box[i]
    BY <1>4, <2>1, <2>3
  <2>6. ASSUME NEW i \in Len(box) + 1 .. Len(box) + k PROVE new[i] = c
    <3>1. i - Len(box) \in 1 .. k /\ ~(i <= Len(box)) /\ i \in 1 .. Len(box) + k
      BY <1>4, <2>1
    <3>2. Repeat(c, k)[i - Len(box)] = c
      BY <3>1 DEF Repeat
    <3> QED BY <2>3, <3>1, <3>2
  <2> QED BY <2>1, <2>4, <2>5, <2>6
<1>6. /\ \A n \in Delivered : /\ n \in Nat /\ n < p /\ n \in Delivered'
                              /\ records'[n] = records[n] /\ records[n].msg # c
      /\ p \in Delivered' /\ p \in Nat /\ records'[p].msg = c
  BY DeliveredFacts DEF Delivers
<1>7. ASSUME NEW i \in DOMAIN new PROVE (i \in DOMAIN box /\ new[i] = box[i]) \/ new[i] = c
  BY <1>4, <1>5
<1>8. ASSUME NEW i \in DOMAIN new PROVE \E n \in Delivered' : records'[n].msg = new[i]
  <2>1. CASE new[i] = c
    BY <1>6, <2>1
  <2>2. CASE i \in DOMAIN box /\ new[i] = box[i]
    <3>1. PICK n \in Delivered : records[n].msg = box[i]
      BY <1>2, <2>2 DEF Known
    <3> QED BY <1>6, <2>2, <3>1
  <2> QED BY <1>7, <2>1, <2>2
<1>9. ASSUME NEW i \in DOMAIN new, NEW j \in DOMAIN new, i < j
      PROVE  \E m, n \in Delivered' : m <= n /\ records'[m].msg = new[i] /\ records'[n].msg = new[j]
  <2>1. CASE new[j] = c
    <3>1. PICK m \in Delivered' : records'[m].msg = new[i]
      BY <1>8
    <3>2. m <= p
      <4>1. m \in Delivered \/ m = p
        BY <3>1 DEF Delivers
      <4> QED BY <1>6, <4>1
    <3> QED BY <1>6, <2>1, <3>1, <3>2
  <2>2. CASE j \in DOMAIN box /\ new[j] = box[j]
    <3>1. i \in DOMAIN box /\ new[i] = box[i]
      BY <1>4, <1>5, <1>9, <2>2
    <3>2. PICK m \in Delivered, n \in Delivered :
            m <= n /\ records[m].msg = box[i] /\ records[n].msg = box[j]
      BY <1>2, <1>9, <2>2, <3>1 DEF InOrder
    <3> QED BY <1>6, <2>2, <3>1, <3>2
  <2> QED BY <1>7, <2>1, <2>2
<1>10. ASSUME NEW n \in Delivered, NEW m, m = records[n].msg
       PROVE  Cardinality(Places(new, m)) = Cardinality(Subscribed(e, m.key, n))
  <2>1. Places(new, m) = Places(box, m)
    BY <1>4, <1>5, <1>6, <1>10 DEF Places
  <2> QED BY <1>2, <1>10, <2>1 DEF Counted
<1>11. Cardinality(Places(new, c)) = Cardinality(Subscribed(e, c.key, p))
  <2>1. \A i \in DOMAIN box : box[i] # c
    BY <1>2, <1>6 DEF Known
  <2>2. Places(new, c) = Len(box) + 1 .. Len(box) + k
    BY <1>4, <1>5, <2>1 DEF Places
  <2>3. Cardinality(Places(new, c)) = k
    <3>1. Cardinality(Len(box) + 1 .. Len(box) + k) = k
      <4>1. Cardinality(Len(box) + 1 .. Len(box) + k)
              = IF Len(box) + 1 > Len(box) + k THEN 0 ELSE (Len(box) + k) - (Len(box) + 1) + 1
        <5>1. Len(box) + 1 \in Int /\ Len(box) + k \in Int
          BY <1>4, <1>5
        <5> QED BY ONLY <5>1, FS_Interval
      <4> QED BY <1>4, <1>5, <4>1
    <3> QED BY <2>2, <3>1
  <2>4. \A s \in DOMAIN subs[c.key] : subs[c.key][s].since < p
    <3> SUFFICES ASSUME NEW s \in DOMAIN subs[c.key] PROVE subs[c.key][s].since < p
      OBVIOUS
    <3>1. subs[c.key][s] \in Subscription
      BY <1>3, ElementOfSeq, LenProperties
    <3>2. /\ subs[c.key][s].since \in Nat /\ subs[c.key][s].since <= Len(records)
          /\ Len(records) \in Nat
      BY <1>3, <3>1, LenProperties DEF Heard, Subscription, TypeOK
    <3> QED BY <1>6, <3>2 DEF Delivers
  <2>5. Subscribed(e, c.key, p) = {s \in DOMAIN subs[c.key] : subs[c.key][s].ecu = e}
    BY <2>4 DEF Subscribed
  <2> QED BY <1>1, <2>3, <2>5 DEF Copies
<1>12. \A x, n : Subscribed(e, x, n)' = Subscribed(e, x, n)
  BY DEF Subscribed
<1>13. Known(new)'
  BY <1>8 DEF Known
<1>14. InOrder(new)'
  BY <1>9 DEF InOrder
<1>15. Counted(e, new)'
  <2> SUFFICES ASSUME NEW n \in Delivered', NEW m, m = records'[n].msg
               PROVE  Cardinality(Places(new, m)) = Cardinality(Subscribed(e, m.key, n))
    BY <1>12 DEF Counted, Places
  <2>1. CASE n \in Delivered
    BY <1>6, <1>10, <2>1
  <2>2. CASE n = p
    BY <1>6, <1>11, <2>2
  <2> QED BY <2>1, <2>2 DEF Delivers
<1> QED BY <1>13, <1>14, <1>15

LEMMA DeliverHeard ==
  ASSUME TypeOK, TypeOK', Heard, NEW c \in Message, c.id \notin DoneIds, NEW p, Delivers(p, c),
         Deliver(c), subs' = subs
  PROVE  Heard'
<1>1. \A k \in Keys : \A s \in DOMAIN subs'[k] : subs'[k][s].since <= Len(records')
  BY SinceStays DEF Delivers
<1>2. DOMAIN inbox' = DOMAIN inbox
  BY DEF Deliver
<1>3. ASSUME NEW e \in DOMAIN inbox'
      PROVE  Known(inbox[e])' /\ InOrder(inbox[e])' /\ Counted(e, inbox[e])'
  <2>1. PICK new : new = inbox[e] \o Repeat(c, Copies(e, c.key))
    OBVIOUS
  <2>2. inbox'[e] = new
    BY <1>2, <2>1 DEF Deliver
  <2>3. Known(new)' /\ InOrder(new)' /\ Counted(e, new)'
    BY <1>2, <2>1, BoxHeard
  <2> QED BY <2>2, <2>3 DEF Known, InOrder, Counted, Places
<1> QED BY <1>1, <1>3 DEF Heard

-----------------------------------------------------------------------------
(* Calls that subscribe: a subscription counts from the next record on.    *)

SubsGrow ==
  \A k \in Keys :
    /\ DOMAIN subs[k] \subseteq DOMAIN subs'[k]
    /\ \A s \in DOMAIN subs'[k] :
         IF s \in DOMAIN subs[k] THEN subs'[k][s] = subs[k][s]
                                 ELSE subs'[k][s].since = Len(records)

LEMMA SubsGrowHeard ==
  ASSUME TypeOK, TypeOK', Heard, SubsGrow, records' = records
  PROVE  /\ \A k \in Keys : \A s \in DOMAIN subs'[k] : subs'[k][s].since <= Len(records')
         /\ \A e : \A n \in Delivered :
              Subscribed(e, records[n].msg.key, n)' = Subscribed(e, records[n].msg.key, n)
<1>1. Len(records) \in Nat
  BY LenProperties DEF TypeOK
<1>2. \A k \in Keys : \A s \in DOMAIN subs'[k] : subs'[k][s].since <= Len(records')
  BY <1>1 DEF Heard, SubsGrow
<1>3. ASSUME NEW e, NEW n \in Delivered, NEW k, k = records[n].msg.key
      PROVE  Subscribed(e, k, n)' = Subscribed(e, k, n)
  <2>1. k \in Keys /\ n \in Nat /\ n <= Len(records)
    BY <1>3, DeliveredFacts
  <2>2. \A s \in DOMAIN subs'[k] : s \notin DOMAIN subs[k] => ~(subs'[k][s].since < n)
    BY <1>1, <2>1 DEF SubsGrow
  <2> QED BY <2>1, <2>2 DEF SubsGrow, Subscribed
<1> QED BY <1>2, <1>3

LEMMA OldBoxHeard ==
  ASSUME TypeOK, TypeOK', Heard, SubsGrow, records' = records,
         NEW e \in DOMAIN inbox, NEW box, box = inbox[e]
  PROVE  Known(box)' /\ InOrder(box)' /\ Counted(e, box)'
<1>1. Known(box) /\ InOrder(box) /\ Counted(e, box)
  BY DEF Heard
<1>2. Delivered' = Delivered
  BY DEF Delivered
<1>3. Known(box)' /\ InOrder(box)'
  BY <1>1, <1>2 DEF Known, InOrder
<1>4. ASSUME NEW n \in Delivered', NEW m, m = records'[n].msg
      PROVE  Cardinality(Places(box, m)) = Cardinality(Subscribed(e, m.key, n)')
  <2>1. n \in Delivered /\ m = records[n].msg
    BY <1>2, <1>4
  <2>2. Subscribed(e, m.key, n)' = Subscribed(e, m.key, n)
    BY <2>1, SubsGrowHeard
  <2> QED BY <1>1, <2>1, <2>2 DEF Counted
<1>5. Counted(e, box)'
  BY <1>4 DEF Counted, Places
<1> QED BY <1>3, <1>5

LEMMA SubscribeHeard ==
  ASSUME TypeOK, TypeOK', Heard, NEW k \in Keys, NEW e \in DOMAIN inbox, Subscribe(k, e)
  PROVE  Heard'
<1>1. records' = records /\ inbox' = inbox
  BY DEF Subscribe
<1>2. PICK s : s = [ecu |-> e, since |-> Len(records)]
  OBVIOUS
<1>3. s \in Subscription /\ s.since = Len(records)
  <2>1. Len(records) \in Nat /\ e \in Nat \ {0}
    <3>1. records \in Seq(Record) /\ inbox \in Seq(Seq(Message))
      BY DEF TypeOK
    <3>2. Len(records) \in Nat /\ DOMAIN inbox = 1 .. Len(inbox)
      BY <3>1, LenProperties
    <3> QED BY <3>2
  <2>2. s \in Subscription
    BY <1>2, <2>1 DEF Subscription
  <2> QED BY <1>2, <2>2
<1>4. subs' = [subs EXCEPT ![k] = Append(subs[k], s)]
  BY <1>2 DEF Subscribe
<1>5. /\ subs[k] \in Seq(Subscription) /\ subs'[k] = Append(subs[k], s)
      /\ \A x \in Keys : x # k => subs'[x] = subs[x]
  BY <1>4 DEF TypeOK
<1>6. /\ DOMAIN subs[k] = 1 .. Len(subs[k]) /\ Len(subs[k]) \in Nat
      /\ DOMAIN subs'[k] = 1 .. Len(subs[k]) + 1
      /\ \A i \in 1 .. Len(subs[k]) : subs'[k][i] = subs[k][i]
      /\ subs'[k][Len(subs[k]) + 1] = s
  BY <1>3, <1>5, AppendProperties, LenProperties
<1>7. SubsGrow
  <2> SUFFICES ASSUME NEW x \in Keys
               PROVE  /\ DOMAIN subs[x] \subseteq DOMAIN subs'[x]
                      /\ \A i \in DOMAIN subs'[x] :
                           IF i \in DOMAIN subs[x] THEN subs'[x][i] = subs[x][i]
                                                   ELSE subs'[x][i].since = Len(records)
    BY DEF SubsGrow
  <2>1. CASE x = k
    BY <1>3, <1>6, <2>1
  <2>2. CASE x # k
    BY <1>5, <2>2
  <2> QED BY <2>1, <2>2
<1>8. ASSUME NEW f \in DOMAIN inbox' PROVE Known(inbox[f])' /\ InOrder(inbox[f])' /\ Counted(f, inbox[f])'
  <2>1. PICK box : box = inbox[f] /\ box = inbox'[f]
    BY <1>1
  <2>2. Known(box)' /\ InOrder(box)' /\ Counted(f, box)'
    BY <1>1, <1>7, <2>1, OldBoxHeard
  <2> QED BY <2>1, <2>2 DEF Known, InOrder, Counted, Places
<1> QED BY <1>1, <1>7, <1>8, SubsGrowHeard DEF Heard

LEMMA AttachHeard ==
  ASSUME TypeOK, TypeOK', Heard, NEW keys \in KeyLists, Attach(keys)
  PROVE  Heard'
<1> USE NetworkSimAssumption
<1>1. records' = records /\ inbox' = Append(inbox, <<>>)
  BY DEF Attach
<1>2. PICK s, new : new = Len(inbox) + 1 /\ s = [ecu |-> new, since |-> Len(records)]
  OBVIOUS
<1>3. /\ s \in Subscription /\ s.since = Len(records) /\ s.ecu = new
      /\ Len(inbox) \in Nat /\ Len(records) \in Nat
  <2>1. Len(records) \in Nat /\ Len(inbox) \in Nat
    BY LenProperties DEF TypeOK
  <2> QED BY <1>2, <2>1 DEF Subscription
<1>4. /\ DOMAIN inbox' = DOMAIN inbox \cup {new} /\ new \notin DOMAIN inbox
      /\ \A f \in DOMAIN inbox : inbox'[f] = inbox[f]
      /\ inbox'[new] = <<>>
  <2>1. inbox \in Seq(Seq(Message)) /\ <<>> \in Seq(Message)
    BY EmptySeq DEF TypeOK
  <2>2. /\ DOMAIN inbox = 1 .. Len(inbox) /\ DOMAIN inbox' = 1 .. Len(inbox) + 1
        /\ \A f \in 1 .. Len(inbox) : inbox'[f] = inbox[f]
        /\ inbox'[Len(inbox) + 1] = <<>>
    BY <1>1, <2>1, AppendProperties, LenProperties
  <2> QED BY <1>2, <1>3, <2>2
<1>5. ASSUME NEW k \in Keys
      PROVE  /\ DOMAIN subs[k] \subseteq DOMAIN subs'[k]
             /\ \A i \in DOMAIN subs'[k] :
                  IF i \in DOMAIN subs[k] THEN subs'[k][i] = subs[k][i]
                                          ELSE subs'[k][i] = s
  <2>1. PICK c : c = Cardinality({i \in DOMAIN keys : keys[i] = k})
    OBVIOUS
  <2>2. c \in Nat
    <3>1. keys \in Seq(Keys)
      OBVIOUS
    <3> QED BY <2>1, <3>1, PositionsFinite
  <2>3. Repeat(s, c) \in Seq(Subscription) /\ Len(Repeat(s, c)) = c
    <3>1. Repeat(s, c) \in Seq(Subscription)
      BY <1>3, <2>2, RepeatType
    <3>2. DOMAIN Repeat(s, c) = 1 .. c
      BY DEF Repeat
    <3> QED BY <2>2, <3>1, <3>2, LenProperties
  <2>4. subs[k] \in Seq(Subscription) /\ subs'[k] = subs[k] \o Repeat(s, c)
    BY <1>2, <2>1 DEF TypeOK, Attach
  <2>5. /\ Len(subs[k]) \in Nat /\ DOMAIN subs[k] = 1 .. Len(subs[k])
        /\ DOMAIN subs'[k] = 1 .. Len(subs[k]) + c
        /\ \A i \in 1 .. Len(subs[k]) + c :
             subs'[k][i] = IF i <= Len(subs[k]) THEN subs[k][i] ELSE Repeat(s, c)[i - Len(subs[k])]
    <3>1. PICK a, b : a = subs[k] /\ b = Repeat(s, c)
      OBVIOUS
    <3>2. a \in Seq(Subscription) /\ b \in Seq(Subscription) /\ Len(b) = c /\ subs'[k] = a \o b
      BY <2>3, <2>4, <3>1
    <3>3. /\ a \o b \in Seq(Subscription) /\ Len(a \o b) = Len(a) + c
          /\ \A i \in 1 .. Len(a) + c : (a \o b)[i] = IF i <= Len(a) THEN a[i] ELSE b[i - Len(a)]
      BY <3>2, ConcatProperties
    <3>4. Len(a) \in Nat /\ DOMAIN a = 1 .. Len(a) /\ DOMAIN (a \o b) = 1 .. Len(a) + c
      BY <3>2, <3>3, LenProperties
    <3> QED BY <3>1, <3>2, <3>3, <3>4
  <2>6. ASSUME NEW i \in DOMAIN subs'[k]
        PROVE  IF i \in DOMAIN subs[k] THEN subs'[k][i] = subs[k][i] ELSE subs'[k][i] = s
    <3>1. CASE i <= Len(subs[k])
      BY <2>2, <2>5, <3>1
    <3>2. CASE ~(i <= Len(subs[k]))
      <4>1. i - Len(subs[k]) \in 1 .. c
        BY <2>2, <2>5, <3>2
      <4>2. Repeat(s, c)[i - Len(subs[k])] = s
        BY <4>1 DEF Repeat
      <4> QED BY <2>2, <2>5, <3>2, <4>2
    <3> QED BY <2>2, <2>5, <3>1, <3>2
  <2>7. DOMAIN subs[k] \subseteq DOMAIN subs'[k]
    BY <2>2, <2>5
  <2> QED BY <2>6, <2>7
<1>6. SubsGrow
  BY <1>3, <1>5 DEF SubsGrow
<1>7. ASSUME NEW f \in DOMAIN inbox PROVE Known(inbox[f])' /\ InOrder(inbox[f])' /\ Counted(f, inbox[f])'
  <2>1. PICK box : box = inbox[f] /\ box = inbox'[f]
    BY <1>4
  <2>2. Known(box)' /\ InOrder(box)' /\ Counted(f, box)'
    BY <1>1, <1>6, <2>1, OldBoxHeard
  <2> QED BY <2>1, <2>2 DEF Known, InOrder, Counted, Places
<1>8. Known(inbox[new])' /\ InOrder(inbox[new])' /\ Counted(new, inbox[new])'
  <2>1. PICK box : box = inbox'[new] /\ box = <<>>
    BY <1>4
  <2>2. DOMAIN box = {}
    BY <2>1
  <2>3. Known(box)' /\ InOrder(box)'
    BY <2>2 DEF Known, InOrder
  <2>4. ASSUME NEW n \in Delivered', NEW m, m = records'[n].msg
        PROVE  Cardinality(Places(box, m)) = Cardinality(Subscribed(new, m.key, n)')
    <3>1. n \in Delivered /\ m = records[n].msg
      BY <1>1, <2>4 DEF Delivered
    <3>2. m.key \in Keys
      BY <3>1, DeliveredFacts
    <3>3. \A i \in DOMAIN subs[m.key] : subs[m.key][i].ecu # new
      <4>1. \A x \in Keys : \A i \in DOMAIN subs[x] : subs[x][i].ecu \in DOMAIN inbox
        BY DEF TypeOK
      <4> QED BY <1>4, <3>2, <4>1
    <3>4. Subscribed(new, m.key, n) = {}
      BY <3>3 DEF Subscribed
    <3>5. Subscribed(new, m.key, n)' = Subscribed(new, m.key, n)
      BY <1>1, <1>6, <3>1, SubsGrowHeard
    <3>6. Places(box, m) = {}
      BY <2>2 DEF Places
    <3> QED BY <3>4, <3>5, <3>6
  <2>5. Counted(new, box)'
    BY <2>4 DEF Counted, Places
  <2> QED BY <2>1, <2>3, <2>5 DEF Known, InOrder, Counted, Places
<1>9. \A f \in DOMAIN inbox' : Known(inbox[f])' /\ InOrder(inbox[f])' /\ Counted(f, inbox[f])'
  BY <1>4, <1>7, <1>8
<1> QED BY <1>1, <1>6, <1>9, SubsGrowHeard DEF Heard

-----------------------------------------------------------------------------
(* Every step.                                                             *)

LEMMA InjectHeard ==
  ASSUME TypeOK, TypeOK', Split, Heard, NEW k \in Keys, Inject(k)
  PROVE  Heard'
<1>1. PICK c : c = [NewMessage(nextId, k, 0) EXCEPT !.ts = time]
  OBVIOUS
<1>2. /\ records' = Append(records, Entry("message", c)) /\ Deliver(c) /\ subs' = subs
  BY <1>1 DEF Inject
<1>3. c \in Message /\ c.id = nextId
  BY <1>1 DEF NewMessage, Message, TypeOK
<1>4. c.id \notin DoneIds
  <2>1. nextId \in Nat
    BY DEF TypeOK
  <2> QED BY <1>3, <2>1 DEF Split
<1>5. PICK p : Delivers(p, c)
  BY <1>2, <1>3, AppendDelivers
<1> QED BY <1>2, <1>3, <1>4, <1>5, DeliverHeard

LEMMA DeliverDueHeard ==
  ASSUME TypeOK, TypeOK', Split, Heard, DeliverDue
  PROVE  Heard'
<1>1. PICK d \in due : records' = Append(records, Entry("message", d.msg)) /\ Deliver(d.msg)
  BY DEF DeliverDue
<1>2. subs' = subs
  BY DEF DeliverDue
<1>3. PICK c : c = d.msg
  OBVIOUS
<1>4. c \in Message
  BY <1>3 DEF TypeOK, Held
<1>5. c.id \notin DoneIds
  <2>1. c.id \in HeldIds
    BY <1>3 DEF HeldIds
  <2> QED BY <2>1 DEF Split
<1>6. PICK p : Delivers(p, c)
  BY <1>1, <1>3, <1>4, AppendDelivers
<1> QED BY <1>1, <1>2, <1>3, <1>4, <1>5, <1>6, DeliverHeard

LEMMA RouteHeard ==
  ASSUME TypeOK, TypeOK', Split, Heard, Route
  PROVE  Heard'
<1>1. PICK m : m = [Head(outbound) EXCEPT !.ts = time]
  OBVIOUS
<1>2. outbound # <<>> /\ subs' = subs
  BY DEF Route
<1>3. m \in Message /\ m.id = Head(outbound).id
  <2>1. Head(outbound) \in Message /\ time \in Nat
    BY <1>2, HeadTailProperties DEF TypeOK
  <2> QED BY <1>1, <2>1 DEF Message
<1>4. m.id \notin DoneIds
  <2>1. m.id \in OutIds
    <3>1. 1 \in DOMAIN outbound /\ Head(outbound) = outbound[1]
      BY <1>2, LenProperties, EmptySeq DEF TypeOK
    <3> QED BY <1>3, <3>1 DEF OutIds
  <2> QED BY <2>1 DEF Split
<1>5. ASSUME NEW c \in Message, c.id = m.id, Deliver(c), \E p : Delivers(p, c) PROVE Heard'
  BY <1>2, <1>4, <1>5, DeliverHeard
<1>6. ASSUME DeliversNone, inbox' = inbox PROVE Heard'
  BY <1>2, <1>6, NoneHeard
<1>7. ASSUME RouteClean(m) PROVE Heard'
  <2>1. records' = Append(records, Entry("message", m)) /\ Deliver(m)
    BY <1>7 DEF RouteClean
  <2>2. \E p : Delivers(p, m)
    BY <1>3, <2>1, AppendDelivers
  <2> QED BY <1>3, <1>5, <2>1, <2>2
<1>8. ASSUME NEW i, RouteDrop(m, faults[i].rule) PROVE Heard'
  <2>1. records' = Append(records, Entry("dropped", m)) /\ inbox' = inbox
    BY <1>8 DEF RouteDrop
  <2> QED BY <1>3, <1>6, <2>1, OtherDeliversNone
<1>9. ASSUME NEW i, RouteDelay(m, faults[i].rule) PROVE Heard'
  <2>1. records' = Append(records, Entry("delayed", m)) /\ inbox' = inbox
    BY <1>9 DEF RouteDelay
  <2> QED BY <1>3, <1>6, <2>1, OtherDeliversNone
<1>10. ASSUME NEW i, RouteCorrupt(m, faults[i].rule) PROVE Heard'
  <2>1. PICK c : c = IF faults[i].rule.flips THEN [m EXCEPT !.data = "flipped"] ELSE m
    OBVIOUS
  <2>2. c \in Message /\ c.id = m.id
    BY <1>3, <2>1 DEF Message
  <2>3. /\ records' = records \o <<Entry("corrupted", c), Entry("message", c)>>
        /\ Deliver(c)
    BY <1>10, <2>1 DEF RouteCorrupt
  <2>4. \E p : Delivers(p, c)
    BY <2>2, <2>3, CorruptDelivers
  <2> QED BY <1>5, <2>2, <2>3, <2>4
<1>11. \/ RouteClean(m)
       \/ \E i \in DOMAIN faults : \/ RouteDrop(m, faults[i].rule)
                                   \/ RouteDelay(m, faults[i].rule)
                                   \/ RouteCorrupt(m, faults[i].rule)
  BY <1>1, Zenon DEF Route
<1> QED BY <1>7, <1>8, <1>9, <1>10, <1>11

LEMMA HeardStep == TypeOK /\ Split /\ Heard /\ [Next]_vars => Heard'
<1> SUFFICES ASSUME TypeOK, Split, Heard, [Next]_vars PROVE Heard'
  OBVIOUS
<1>1. TypeOK'
  BY TypeStep
<1>2. CASE UNCHANGED <<subs, inbox, records>>
  <2>1. DeliversNone
    <3>1. Len(records) \in Nat
      BY LenProperties DEF TypeOK
    <3> QED BY <1>2, <3>1 DEF DeliversNone, Delivered
  <2> QED BY <1>1, <1>2, <2>1, NoneHeard
<1> QED BY <1>1, <1>2, AttachHeard, SubscribeHeard, InjectHeard, RouteHeard, DeliverDueHeard
        DEF Next, Call, Tick, vars, AddFault, RunUntil, UpdateEcu, UpdatesDone, TakeDue, EndTick

LEMMA HeardAlways == Spec => []Heard
<1>1. Init => Split /\ Heard
  <2> SUFFICES ASSUME Init PROVE Split /\ Heard
    OBVIOUS
  <2>1. records = <<>> /\ inbox = <<>> /\ \A k \in Keys : subs[k] = <<>>
    BY DEF Init
  <2>2. Heard
    BY <2>1 DEF Heard
  <2>3. Split
    BY DEF Init, Split, OutIds, HeldIds, DoneIds, Settled, OutOnce, HeldOnce, DoneOnce
  <2> QED BY <2>2, <2>3
<1> QED BY <1>1, TypeCorrect, SplitStep, HeardStep, PTL DEF Spec

\* Whoever is subscribed hears: every ECU was handed each delivered message as
\* often as it was subscribed to the key by then, and nothing else.
THEOREM EveryoneHears == Spec => []FanOut
<1>1. Heard => FanOut
  BY DEF Heard, Known, Counted, Places, Subscribed, FanOut
<1> QED BY <1>1, HeardAlways, PTL

\* What any two ECUs hear, they hear in the recorder's order.
THEOREM OneOrder == Spec => []BroadcastOrder
<1>1. Heard => BroadcastOrder
  BY DEF Heard, InOrder, BroadcastOrder
<1> QED BY <1>1, HeardAlways, PTL

-----------------------------------------------------------------------------
(* Who may overtake whom.                                                  *)

\* Messages wait for their route in the order of their numbers, behind every
\* message that was routed before.
InTurn ==
  /\ \A i, j \in DOMAIN outbound : i < j => outbound[i].id < outbound[j].id
  /\ \A i \in DOMAIN outbound :
       /\ \A n \in DOMAIN records : records[n].msg.id < outbound[i].id
       /\ \A d \in delayed \cup due : d.msg.id < outbound[i].id

\* What was held back and delivered in this tick is before all that is still due.
ReleasedInTurn(n) ==
  WasDelayed(records[n].msg) /\ records[n].tick = time =>
    pc = "due" /\ \A d \in due : records[n].msg.id < d.msg.id

Released ==
  /\ \A d \in delayed \cup due : WasDelayed(d.msg)
  /\ \A n \in Delivered : records[n].tick <= time /\ ReleasedInTurn(n)

\* The log grows by entries about message x only; none of them is a delay.
Logs(x) ==
  /\ \A n \in DOMAIN records : n \in DOMAIN records' /\ records'[n] = records[n]
  /\ \A n \in DOMAIN records' : n \in DOMAIN records \/ records'[n].msg.id = x

LogsNoDelay ==
  \A n \in DOMAIN records' : n \in DOMAIN records \/ records'[n].kind # "delayed"

LEMMA AppendLogs ==
  ASSUME TypeOK, NEW e \in Record, records' = Append(records, e)
  PROVE  /\ Logs(e.msg.id)
         /\ e.kind # "delayed" => LogsNoDelay
         /\ Len(records) + 1 \in DOMAIN records' /\ records'[Len(records) + 1] = e
<1>1. /\ DOMAIN records' = DOMAIN records \cup {Len(records) + 1}
      /\ records'[Len(records) + 1] = e /\ LogAdds({e})
  BY LogAppend
<1> QED BY <1>1 DEF LogAdds, Logs, LogsNoDelay

LEMMA AppendTwoLogs ==
  ASSUME TypeOK, NEW e \in Record, NEW f \in Record, e.msg.id = f.msg.id,
         e.kind # "delayed", f.kind # "delayed", records' = records \o <<e, f>>
  PROVE  Logs(e.msg.id) /\ LogsNoDelay
<1>1. /\ DOMAIN records' = DOMAIN records \cup {Len(records) + 1, Len(records) + 2}
      /\ LogAdds({e, f})
  BY LogAppendTwo
<1> QED BY <1>1 DEF LogAdds, Logs, LogsNoDelay

\* Once delayed, always delayed; and no message in the log becomes so by an
\* entry about another one, or by an entry that is no delay.
LEMMA DelaysStay ==
  ASSUME NEW x, Logs(x), NEW m
  PROVE  /\ WasDelayed(m) => WasDelayed(m)'
         /\ m.id # x \/ LogsNoDelay => (WasDelayed(m)' => WasDelayed(m))
<1>1. WasDelayed(m) => WasDelayed(m)'
  BY DEF WasDelayed, Logs
<1>2. ASSUME m.id # x \/ LogsNoDelay, WasDelayed(m)' PROVE WasDelayed(m)
  <2>1. PICK n \in DOMAIN records' : records'[n].kind = "delayed" /\ records'[n].msg.id = m.id
    BY <1>2 DEF WasDelayed
  <2>2. n \in DOMAIN records
    BY <1>2, <2>1 DEF Logs, LogsNoDelay
  <2> QED BY <2>1, <2>2 DEF WasDelayed, Logs
<1> QED BY <1>1, <1>2

\* A delivery behind the log leaves the order as asked when its message was
\* held back in case a later one of its key has been delivered.
LEMMA DeliveryInOrder ==
  ASSUME TypeOK, OvertakenOnlyWhenDelayed, NEW c \in Message, NEW p, Delivers(p, c), Logs(c.id),
         \A n \in Delivered : WasDelayed(records[n].msg)' <=> WasDelayed(records[n].msg),
         \A n \in Delivered :
           records[n].msg.key = c.key /\ c.id < records[n].msg.id =>
             WasDelayed(c) /\ (WasDelayed(records[n].msg) => records[n].tick < time)
  PROVE  OvertakenOnlyWhenDelayed'
<1> SUFFICES ASSUME NEW i \in Delivered', NEW j \in Delivered', i < j,
                    records'[j].msg.key = records'[i].msg.key,
                    records'[j].msg.id < records'[i].msg.id
             PROVE  /\ WasDelayed(records[j].msg)'
                    /\ WasDelayed(records[i].msg)' => records'[i].tick < records'[j].tick
  BY DEF OvertakenOnlyWhenDelayed
<1>1. /\ Delivered' = Delivered \cup {p} /\ p \in Nat /\ Len(records) < p
      /\ records'[p].msg = c /\ records'[p].tick = time
      /\ \A n \in Delivered : records'[n] = records[n]
  BY DEF Delivers
<1>2. i \in Delivered
  <2>1. \A n \in Delivered : n \in Nat /\ n <= Len(records) /\ Len(records) \in Nat
    BY DeliveredFacts
  <2>2. i # p
    BY <1>1, <2>1
  <2> QED BY <1>1, <2>2
<1>3. CASE j \in Delivered
  <2>1. /\ WasDelayed(records[j].msg)
        /\ WasDelayed(records[i].msg) => records[i].tick < records[j].tick
    BY <1>1, <1>2, <1>3 DEF OvertakenOnlyWhenDelayed
  <2> QED BY <1>1, <1>2, <1>3, <2>1
<1>4. CASE j = p
  <2>1. records[i].msg.key = c.key /\ c.id < records[i].msg.id
    BY <1>1, <1>2, <1>4
  <2>2. WasDelayed(c) /\ (WasDelayed(records[i].msg) => records[i].tick < time)
    BY <1>2, <2>1
  <2>3. WasDelayed(c)'
    BY <2>2, DelaysStay
  <2> QED BY <1>1, <1>2, <1>4, <2>2, <2>3
<1> QED BY <1>1, <1>3, <1>4

\* An event about a message that is not in the log leaves the order alone.
LEMMA EventInOrder ==
  ASSUME OvertakenOnlyWhenDelayed, DeliversNone,
         \A n \in Delivered : WasDelayed(records[n].msg)' <=> WasDelayed(records[n].msg)
  PROVE  OvertakenOnlyWhenDelayed'
BY DEF OvertakenOnlyWhenDelayed, DeliversNone

-----------------------------------------------------------------------------
(* The order through every step.                                           *)

Ordered == InTurn /\ Released /\ OvertakenOnlyWhenDelayed

\* Steps that neither log nor push: in a tick, or to the next one.
InTick == time' = time /\ (pc # "due" \/ (pc' = "due" /\ due' \subseteq due))
ToNextTick == time < time'
Quiet == UNCHANGED <<records, outbound>> /\ delayed' \cup due' \subseteq delayed \cup due

LEMMA OrderedFrame ==
  ASSUME TypeOK, TypeOK', Ordered, Quiet, InTick \/ ToNextTick
  PROVE  Ordered'
<1>0. UNCHANGED <<records, outbound>> /\ delayed' \cup due' \subseteq delayed \cup due
  BY DEF Quiet
<1>1. Delivered' = Delivered /\ \A m : WasDelayed(m)' <=> WasDelayed(m)
  BY <1>0 DEF Delivered, WasDelayed
<1>2. InTurn'
  BY <1>0 DEF Ordered, InTurn
<1>3. OvertakenOnlyWhenDelayed'
  BY <1>0, <1>1 DEF Ordered, OvertakenOnlyWhenDelayed
<1>4. ASSUME NEW n \in Delivered PROVE records[n].tick <= time' /\ ReleasedInTurn(n)'
  <2>1. records[n].tick \in Nat /\ time \in Nat /\ time' \in Nat
    <3>1. records \in Seq(Record) /\ n \in 1 .. Len(records)
      BY LenProperties DEF TypeOK, Delivered
    <3>2. records[n] \in Record
      BY <3>1, ElementOfSeq
    <3> QED BY <3>2 DEF Record, TypeOK
  <2>2. records[n].tick <= time /\ ReleasedInTurn(n)
    BY DEF Ordered, Released
  <2>3. CASE time < time'
    BY <1>0, <2>1, <2>2, <2>3 DEF ReleasedInTurn
  <2>4. CASE time' = time /\ pc # "due"
    BY <1>0, <1>1, <2>1, <2>2, <2>4 DEF ReleasedInTurn
  <2>5. CASE time' = time /\ pc' = "due" /\ due' \subseteq due
    BY <1>0, <1>1, <2>1, <2>2, <2>5 DEF ReleasedInTurn
  <2> QED BY <2>3, <2>4, <2>5 DEF InTick, ToNextTick
<1>5. Released'
  BY <1>0, <1>1, <1>4 DEF Ordered, Released
<1> QED BY <1>2, <1>3, <1>5 DEF Ordered

\* What an ECU pushes is behind everything.
LEMMA UpdateOrdered ==
  ASSUME TypeOK, TypeOK', Ruled, Ordered, NEW burst \in Bursts, UpdateEcu(burst)
  PROVE  Ordered'
<1>1. nextId \in Nat
  BY Numbers
<1>2. PICK new :
        /\ Len(burst) \in Nat
        /\ \A i \in 1 .. Len(burst) :
             /\ new[i] \in Message /\ new[i].id = nextId + i - 1
             /\ new[i].born = time /\ new[i].data = "intact"
        /\ Len(outbound) \in Nat /\ DOMAIN outbound = 1 .. Len(outbound)
        /\ DOMAIN outbound' = 1 .. Len(outbound) + Len(burst)
        /\ \A i \in 1 .. Len(outbound) + Len(burst) :
             outbound'[i] = IF i <= Len(outbound) THEN outbound[i] ELSE new[i - Len(outbound)]
  BY UpdatePushes
<1>4. Len(burst) \in Nat /\ Len(outbound) \in Nat /\ DOMAIN outbound = 1 .. Len(outbound)
  BY <1>2
<1>5. pc = "update" /\ UNCHANGED <<time, pc, delayed, due, records>>
  BY DEF UpdateEcu
<1>6. /\ DOMAIN outbound' = 1 .. Len(outbound) + Len(burst)
      /\ \A i \in 1 .. Len(outbound) : outbound'[i] = outbound[i]
  BY <1>2
<1>7. ASSUME NEW i \in DOMAIN outbound', i \notin DOMAIN outbound
      PROVE  outbound'[i].id = nextId + (i - Len(outbound)) - 1 /\ i > Len(outbound) /\ i \in Nat
  <2>1. i - Len(outbound) \in 1 .. Len(burst) /\ ~(i <= Len(outbound)) /\ i \in Nat
    BY <1>4, <1>6, <1>7
  <2> QED BY <1>2, <2>1
<1>8. /\ \A i \in DOMAIN outbound : outbound[i].id < nextId /\ outbound[i].id \in Nat
      /\ \A n \in DOMAIN records : records[n].msg.id < nextId /\ records[n].msg.id \in Nat
      /\ \A d \in delayed \cup due : d.msg.id < nextId /\ d.msg.id \in Nat
  BY Numbers DEF Ruled, Pushed, RecordRuled, HeldRuled
<1>9. ASSUME NEW i \in DOMAIN outbound', NEW j \in DOMAIN outbound', i < j
      PROVE  outbound'[i].id < outbound'[j].id
  <2>1. i \in Nat /\ j \in Nat
    BY <1>1, <1>4, <1>6
  <2>2. CASE j \in DOMAIN outbound
    <3>1. i \in DOMAIN outbound
      BY <1>4, <1>6, <1>9, <2>1, <2>2
    <3> QED BY <1>4, <1>6, <1>9, <2>2, <3>1 DEF Ordered, InTurn
  <2>3. CASE j \notin DOMAIN outbound /\ i \in DOMAIN outbound
    <3>1. outbound'[j].id = nextId + (j - Len(outbound)) - 1 /\ j > Len(outbound)
      BY <1>7, <2>3
    <3>2. outbound'[i] = outbound[i] /\ outbound[i].id < nextId /\ outbound[i].id \in Nat
      BY <1>4, <1>6, <1>8, <2>3
    <3> QED BY <1>1, <1>4, <2>1, <3>1, <3>2
  <2>4. CASE j \notin DOMAIN outbound /\ i \notin DOMAIN outbound
    <3>1. outbound'[j].id = nextId + (j - Len(outbound)) - 1
      BY <1>7, <2>4
    <3>2. outbound'[i].id = nextId + (i - Len(outbound)) - 1
      BY <1>7, <2>4
    <3> QED BY <1>1, <1>4, <1>9, <2>1, <3>1, <3>2
  <2> QED BY <2>2, <2>3, <2>4
<1>10. ASSUME NEW i \in DOMAIN outbound', NEW x \in Nat, x < nextId,
              i \in DOMAIN outbound => x < outbound[i].id
       PROVE  x < outbound'[i].id
  <2>1. CASE i \in DOMAIN outbound
    BY <1>4, <1>6, <1>10, <2>1
  <2>2. CASE i \notin DOMAIN outbound
    <3>1. outbound'[i].id = nextId + (i - Len(outbound)) - 1 /\ i > Len(outbound) /\ i \in Nat
      BY <1>7, <2>2
    <3> QED BY <1>1, <1>4, <1>10, <3>1
  <2> QED BY <2>1, <2>2
<1>11. InTurn'
  <2>1. \A i \in DOMAIN outbound : /\ \A n \in DOMAIN records : records[n].msg.id < outbound[i].id
                                   /\ \A d \in delayed \cup due : d.msg.id < outbound[i].id
    BY DEF Ordered, InTurn
  <2>2. \A i \in DOMAIN outbound' : \A n \in DOMAIN records : records[n].msg.id < outbound'[i].id
    BY <1>8, <1>10, <2>1
  <2>3. \A i \in DOMAIN outbound' : \A d \in delayed \cup due : d.msg.id < outbound'[i].id
    BY <1>8, <1>10, <2>1
  <2> QED BY <1>5, <1>9, <2>2, <2>3 DEF InTurn
<1>12. Delivered' = Delivered /\ \A m : WasDelayed(m)' <=> WasDelayed(m)
  BY <1>5 DEF Delivered, WasDelayed
<1>13. Released'
  BY <1>5, <1>12 DEF Ordered, Released, ReleasedInTurn
<1>14. OvertakenOnlyWhenDelayed'
  BY <1>5, <1>12 DEF Ordered, OvertakenOnlyWhenDelayed
<1> QED BY <1>11, <1>13, <1>14 DEF Ordered

\* A message that was not held back is delivered as the last of its key.
LEMMA FreshOrdered ==
  ASSUME TypeOK, TypeOK', Ordered, NEW c \in Message, NEW p, Delivers(p, c),
         Logs(c.id), LogsNoDelay, \A n \in DOMAIN records : records[n].msg.id < c.id,
         pc # "due", UNCHANGED <<time, pc, delayed, due>>, InTurn'
  PROVE  Ordered'
<1>1. /\ \A n \in DOMAIN records : records[n].msg.id \in Nat
      /\ c.id \in Nat /\ time \in Nat
  BY Numbers, MessageFields
<1>2. \A n \in Delivered : n \in DOMAIN records
  BY DEF Delivered
<1>3. /\ Delivered' = Delivered \cup {p} /\ records'[p].msg = c /\ records'[p].tick = time
      /\ \A n \in Delivered : records'[n] = records[n]
  BY DEF Delivers
<1>4. \A m : WasDelayed(m)' <=> WasDelayed(m)
  BY DelaysStay
<1>5. ~WasDelayed(c)
  BY <1>1 DEF WasDelayed
<1>6. OvertakenOnlyWhenDelayed'
  <2>1. \A n \in Delivered : ~(c.id < records[n].msg.id)
    BY <1>1, <1>2
  <2>2. \A n \in Delivered : WasDelayed(records[n].msg)' <=> WasDelayed(records[n].msg)
    BY <1>3, <1>4
  <2>3. OvertakenOnlyWhenDelayed
    BY DEF Ordered
  <2> QED BY <2>1, <2>2, <2>3, DeliveryInOrder
<1>7. ASSUME NEW n \in Delivered PROVE records'[n].tick <= time /\ ~(WasDelayed(records[n].msg) /\ records[n].tick = time)
  BY <1>3 DEF Ordered, Released, ReleasedInTurn
<1>8. \A d \in delayed \cup due : WasDelayed(d.msg)
  BY DEF Ordered, Released
<1>9. Released'
  <2>1. \A d \in delayed' \cup due' : WasDelayed(d.msg)'
    BY <1>4, <1>8
  <2>2. ASSUME NEW n \in Delivered' PROVE records'[n].tick <= time' /\ ReleasedInTurn(n)'
    <3>1. CASE n \in Delivered
      BY <1>3, <1>4, <1>7, <3>1 DEF ReleasedInTurn
    <3>2. CASE n = p
      BY <1>1, <1>3, <1>4, <1>5, <3>2 DEF ReleasedInTurn
    <3> QED BY <1>3, <3>1, <3>2
  <2> QED BY <2>1, <2>2 DEF Released
<1> QED BY <1>6, <1>9 DEF Ordered

LEMMA InjectOrdered ==
  ASSUME TypeOK, TypeOK', Ruled, Ordered, NEW k \in Keys, Inject(k)
  PROVE  Ordered'
<1>1. PICK c : c = [NewMessage(nextId, k, 0) EXCEPT !.ts = time]
  OBVIOUS
<1>2. /\ records' = Append(records, Entry("message", c)) /\ pc = "idle"
      /\ UNCHANGED <<time, pc, outbound, delayed, due>>
  BY <1>1 DEF Inject
<1>3. c \in Message /\ c.id = nextId
  BY <1>1 DEF NewMessage, Message, TypeOK
<1>4. PICK p : Delivers(p, c)
  BY <1>2, <1>3, AppendDelivers
<1>5. PICK e : e = Entry("message", c)
  OBVIOUS
<1>6. e \in Record /\ e.kind = "message" /\ e.msg = c
  BY <1>3, <1>5, EntryType DEF Entry
<1>7. Logs(c.id) /\ LogsNoDelay
  BY <1>2, <1>5, <1>6, AppendLogs
<1>8. \A n \in DOMAIN records : records[n].msg.id < c.id
  BY <1>3 DEF Ruled, RecordRuled
<1>9. InTurn'
  <2>1. outbound' = <<>>
    BY <1>2 DEF Ruled
  <2> QED BY <2>1 DEF InTurn
<1> QED BY <1>2, <1>3, <1>4, <1>7, <1>8, <1>9, FreshOrdered

\* What is due is delivered in the order of the numbers.
LEMMA DeliverDueOrdered ==
  ASSUME TypeOK, TypeOK', Split, Ruled, Ordered, DeliverDue
  PROVE  Ordered'
<1>1. PICK d \in due : /\ FrontDue(d) /\ due' = due \ {d}
                       /\ records' = Append(records, Entry("message", d.msg))
  BY DEF DeliverDue
<1>2. pc = "due" /\ UNCHANGED <<time, pc, outbound, delayed>>
  BY DEF DeliverDue
<1>3. PICK c : c = d.msg
  OBVIOUS
<1>4. c \in Message /\ c.id \in Nat /\ time \in Nat
  BY <1>3, Numbers
<1>5. PICK p : Delivers(p, c)
  BY <1>1, <1>3, <1>4, AppendDelivers
<1>6. PICK e : e = Entry("message", c)
  OBVIOUS
<1>7. e \in Record /\ e.kind = "message" /\ e.msg = c
  BY <1>4, <1>6, EntryType DEF Entry
<1>8. Logs(c.id) /\ LogsNoDelay
  BY <1>1, <1>3, <1>6, <1>7, AppendLogs
<1>9. \A m : WasDelayed(m)' <=> WasDelayed(m)
  BY <1>8, DelaysStay
<1>10. WasDelayed(c)
  BY <1>3 DEF Ordered, Released
<1>11. /\ Delivered' = Delivered \cup {p} /\ records'[p].msg = c /\ records'[p].tick = time
       /\ \A n \in Delivered : records'[n] = records[n]
  BY <1>5 DEF Delivers
<1>12. ASSUME NEW n \in Delivered
       PROVE  /\ records[n].tick \in Nat /\ records[n].msg.id \in Nat
              /\ records[n].tick <= time
              /\ WasDelayed(records[n].msg) /\ records[n].tick = time =>
                   \A o \in due : records[n].msg.id < o.msg.id
  <2>1. records \in Seq(Record) /\ n \in 1 .. Len(records) /\ n \in DOMAIN records
    BY LenProperties DEF TypeOK, Delivered
  <2>2. records[n] \in Record
    BY <2>1, ElementOfSeq
  <2>3. records[n].tick \in Nat /\ records[n].msg.id \in Nat
    BY <2>1, <2>2, Numbers DEF Record
  <2> QED BY <2>3 DEF Ordered, Released, ReleasedInTurn
<1>13. OvertakenOnlyWhenDelayed'
  <2>1. ASSUME NEW n \in Delivered, c.id < records[n].msg.id, WasDelayed(records[n].msg)
        PROVE  records[n].tick < time
    <3>1. records[n].tick # time
      BY <1>3, <1>4, <1>12, <2>1
    <3> QED BY <1>4, <1>12, <3>1
  <2>2. \A n \in Delivered : WasDelayed(records[n].msg)' <=> WasDelayed(records[n].msg)
    BY <1>9, <1>11
  <2>3. OvertakenOnlyWhenDelayed
    BY DEF Ordered
  <2> QED BY <1>4, <1>5, <1>8, <1>10, <2>1, <2>2, <2>3, DeliveryInOrder
<1>14. ASSUME NEW n \in Delivered' PROVE records'[n].tick <= time' /\ ReleasedInTurn(n)'
  <2>1. CASE n \in Delivered
    BY <1>1, <1>2, <1>9, <1>11, <1>12, <2>1 DEF ReleasedInTurn
  <2>2. CASE n = p
    <3>1. ASSUME NEW o \in due' PROVE c.id < o.msg.id
      <4>1. o \in due /\ o # d /\ c.id <= o.msg.id /\ o.msg.id \in Nat
        BY <1>1, <1>3, <3>1, Numbers DEF FrontDue
      <4>2. o.msg.id # c.id
        BY <1>3, <4>1 DEF Split, HeldOnce
      <4> QED BY <1>4, <4>1, <4>2
    <3> QED BY <1>2, <1>4, <1>11, <2>2, <3>1 DEF ReleasedInTurn
  <2> QED BY <1>11, <2>1, <2>2
<1>15. Released'
  <2>1. \A o \in delayed' \cup due' : WasDelayed(o.msg)'
    BY <1>1, <1>2, <1>9 DEF Ordered, Released
  <2> QED BY <1>14, <2>1 DEF Released
<1>16. InTurn'
  <2>1. outbound' = <<>>
    BY <1>2 DEF Ruled
  <2> QED BY <2>1 DEF InTurn
<1> QED BY <1>13, <1>15, <1>16 DEF Ordered

\* route() takes the first of what waits: everything else is behind it.
LEMMA RouteInTurn ==
  ASSUME TypeOK, InTurn, NEW x, outbound # <<>>, x = Head(outbound).id,
         outbound' = Tail(outbound), Logs(x),
         \A d \in delayed' \cup due' : d \in delayed \cup due \/ d.msg.id = x
  PROVE  InTurn'
<1>1. /\ outbound \in Seq(Message) /\ Len(outbound) \in Nat \ {0}
      /\ DOMAIN outbound = 1 .. Len(outbound) /\ Head(outbound) = outbound[1]
      /\ DOMAIN outbound' = 1 .. Len(outbound) - 1
      /\ \A i \in 1 .. Len(outbound) - 1 : outbound'[i] = outbound[i + 1]
  BY EmptySeq, LenProperties, HeadTailProperties DEF TypeOK
<1>2. ASSUME NEW i \in DOMAIN outbound'
      PROVE  /\ i \in Nat /\ i + 1 \in DOMAIN outbound /\ outbound'[i] = outbound[i + 1]
             /\ x < outbound'[i].id
  <2>1. i \in Nat /\ 1 \in DOMAIN outbound /\ i + 1 \in DOMAIN outbound /\ 1 < i + 1
    BY <1>1
  <2>2. outbound[1].id < outbound[i + 1].id
    BY <2>1 DEF InTurn
  <2> QED BY <1>1, <2>1, <2>2
<1>3. ASSUME NEW i \in DOMAIN outbound', NEW j \in DOMAIN outbound', i < j
      PROVE  outbound'[i].id < outbound'[j].id
  <2>1. i + 1 < j + 1
    BY <1>2, <1>3
  <2> QED BY <1>2, <2>1 DEF InTurn
<1>4. ASSUME NEW i \in DOMAIN outbound', NEW n \in DOMAIN records'
      PROVE  records'[n].msg.id < outbound'[i].id
  BY <1>2 DEF InTurn, Logs
<1>5. ASSUME NEW i \in DOMAIN outbound', NEW d \in delayed' \cup due'
      PROVE  d.msg.id < outbound'[i].id
  BY <1>2 DEF InTurn
<1> QED BY <1>3, <1>4, <1>5 DEF InTurn

\* A message that is dropped or held back is not in the order at all.
LEMMA EventOrdered ==
  ASSUME TypeOK, TypeOK', Ordered, NEW x, Logs(x), DeliversNone,
         \A n \in DOMAIN records : records[n].msg.id # x,
         pc # "due", UNCHANGED <<time, pc>>,
         \A d \in delayed' \cup due' : d \in delayed \cup due \/ WasDelayed(d.msg)',
         InTurn'
  PROVE  Ordered'
<1>1. Delivered' = Delivered /\ \A n \in Delivered : records'[n] = records[n] /\ n \in DOMAIN records
  BY DEF DeliversNone, Delivered
<1>2. ASSUME NEW m, m.id # x PROVE WasDelayed(m)' <=> WasDelayed(m)
  BY <1>2, DelaysStay
<1>3. \A n \in Delivered : WasDelayed(records[n].msg)' <=> WasDelayed(records[n].msg)
  BY <1>1, <1>2
<1>4. OvertakenOnlyWhenDelayed'
  BY <1>3, EventInOrder DEF Ordered
<1>5. ASSUME NEW n \in Delivered PROVE records'[n].tick <= time' /\ ReleasedInTurn(n)'
  BY <1>1, <1>3 DEF Ordered, Released, ReleasedInTurn
<1>6. \A d \in delayed' \cup due' : WasDelayed(d.msg)'
  BY DelaysStay DEF Ordered, Released
<1>7. Released'
  BY <1>1, <1>5, <1>6 DEF Released
<1> QED BY <1>4, <1>7 DEF Ordered

LEMMA RouteOrdered ==
  ASSUME TypeOK, TypeOK', Ordered, Route
  PROVE  Ordered'
<1>1. PICK m : m = [Head(outbound) EXCEPT !.ts = time]
  OBVIOUS
<1>2. /\ outbound # <<>> /\ outbound' = Tail(outbound)
      /\ pc = "route" /\ UNCHANGED <<time, pc, due>>
  BY DEF Route
<1>3. m \in Message /\ m.id = Head(outbound).id
  <2>1. Head(outbound) \in Message /\ time \in Nat
    BY <1>2, HeadTailProperties DEF TypeOK
  <2> QED BY <1>1, <2>1 DEF Message
<1>4. \A n \in DOMAIN records : records[n].msg.id < m.id /\ records[n].msg.id # m.id
  <2>1. 1 \in DOMAIN outbound /\ Head(outbound) = outbound[1]
    BY <1>2, LenProperties, EmptySeq DEF TypeOK
  <2>2. \A n \in DOMAIN records : records[n].msg.id \in Nat /\ records[n].msg.id < m.id
    BY <1>3, <2>1, Numbers DEF Ordered, InTurn
  <2> QED BY <1>3, <2>2, MessageFields
<1>5. ASSUME NEW c \in Message, c.id = m.id, delayed' = delayed, \E p : Delivers(p, c),
             Logs(c.id), LogsNoDelay
      PROVE  Ordered'
  <2>1. InTurn'
    BY <1>2, <1>3, <1>5, RouteInTurn DEF Ordered
  <2>2. PICK p : Delivers(p, c)
    BY <1>5
  <2>3. \A n \in DOMAIN records : records[n].msg.id < c.id
    BY <1>4, <1>5
  <2> QED BY <1>2, <1>5, <2>1, <2>2, <2>3, FreshOrdered
<1>6. ASSUME RouteClean(m) PROVE Ordered'
  <2>1. PICK e : e = Entry("message", m)
    OBVIOUS
  <2>2. e \in Record /\ e.kind = "message" /\ e.msg = m
    BY <1>3, <2>1, EntryType DEF Entry
  <2>3. records' = Append(records, e) /\ delayed' = delayed
    BY <1>6, <2>1 DEF RouteClean
  <2>4. \E p : Delivers(p, m)
    BY <1>3, <2>1, <2>3, AppendDelivers
  <2>5. Logs(m.id) /\ LogsNoDelay
    BY <2>2, <2>3, AppendLogs
  <2> QED BY <1>3, <1>5, <2>3, <2>4, <2>5
<1>7. ASSUME NEW i, RouteCorrupt(m, faults[i].rule) PROVE Ordered'
  <2>1. PICK c : c = IF faults[i].rule.flips THEN [m EXCEPT !.data = "flipped"] ELSE m
    OBVIOUS
  <2>2. c \in Message /\ c.id = m.id
    BY <1>3, <2>1 DEF Message
  <2>3. PICK e, f : e = Entry("corrupted", c) /\ f = Entry("message", c)
    OBVIOUS
  <2>4. /\ e \in Record /\ e.kind = "corrupted" /\ e.msg = c
        /\ f \in Record /\ f.kind = "message" /\ f.msg = c
    BY <2>2, <2>3, EntryType DEF Entry
  <2>5. records' = records \o <<e, f>> /\ delayed' = delayed
    BY <1>7, <2>1, <2>3 DEF RouteCorrupt
  <2>6. \E p : Delivers(p, c)
    BY <2>2, <2>3, <2>5, CorruptDelivers
  <2>7. Logs(c.id) /\ LogsNoDelay
    BY <2>4, <2>5, AppendTwoLogs
  <2> QED BY <1>5, <2>2, <2>5, <2>6, <2>7
<1>8. ASSUME NEW i, RouteDrop(m, faults[i].rule) PROVE Ordered'
  <2>1. PICK e : e = Entry("dropped", m)
    OBVIOUS
  <2>2. e \in Record /\ e.msg = m
    BY <1>3, <2>1, EntryType DEF Entry
  <2>3. records' = Append(records, e) /\ delayed' = delayed
    BY <1>8, <2>1 DEF RouteDrop
  <2>4. DeliversNone
    BY <1>3, <2>1, <2>3, OtherDeliversNone
  <2>5. Logs(m.id)
    BY <2>2, <2>3, AppendLogs
  <2>6. InTurn'
    BY <1>2, <1>3, <2>3, <2>5, RouteInTurn DEF Ordered
  <2> QED BY <1>2, <1>4, <2>3, <2>4, <2>5, <2>6, EventOrdered
<1>9. ASSUME NEW i \in DOMAIN faults, RouteDelay(m, faults[i].rule) PROVE Ordered'
  <2>1. PICK e : e = Entry("delayed", m)
    OBVIOUS
  <2>2. e \in Record /\ e.kind = "delayed" /\ e.msg = m
    BY <1>3, <2>1, EntryType DEF Entry
  <2>3. PICK h : h = [at |-> time + faults[i].rule.delay,
                      msg |-> [m EXCEPT !.ts = @ + faults[i].rule.delay]]
    OBVIOUS
  <2>4. h.msg.id = m.id
    BY <1>3, <2>3 DEF Message
  <2>5. records' = Append(records, e) /\ delayed' = delayed \cup {h}
    BY <1>9, <2>1, <2>3 DEF RouteDelay
  <2>6. DeliversNone
    BY <1>3, <2>1, <2>5, OtherDeliversNone
  <2>7. Logs(m.id) /\ Len(records) + 1 \in DOMAIN records' /\ records'[Len(records) + 1] = e
    BY <2>2, <2>5, AppendLogs
  <2>8. \A d \in delayed' \cup due' : d \in delayed \cup due \/ d = h
    BY <1>2, <2>5
  <2>9. WasDelayed(h.msg)'
    BY <2>2, <2>4, <2>7 DEF WasDelayed
  <2>10. InTurn'
    BY <1>2, <1>3, <2>4, <2>7, <2>8, RouteInTurn DEF Ordered
  <2> QED BY <1>2, <1>4, <2>6, <2>7, <2>8, <2>9, <2>10, EventOrdered
<1>10. \/ RouteClean(m)
       \/ \E i \in DOMAIN faults : \/ RouteDrop(m, faults[i].rule)
                                   \/ RouteDelay(m, faults[i].rule)
                                   \/ RouteCorrupt(m, faults[i].rule)
  BY <1>1, Zenon DEF Route
<1> QED BY <1>6, <1>7, <1>8, <1>9, <1>10

LEMMA OrderedStep ==
  TypeOK /\ Split /\ Ruled /\ Ordered /\ [Next]_vars => Ordered'
<1> SUFFICES ASSUME TypeOK, Split, Ruled, Ordered, [Next]_vars PROVE Ordered'
  OBVIOUS
<1>1. TypeOK'
  BY TypeStep
<1>2. ASSUME Quiet, InTick PROVE Ordered'
  BY <1>1, <1>2, OrderedFrame
<1>3. CASE UNCHANGED <<time, pc, outbound, delayed, due, records>>
  BY <1>2, <1>3 DEF Quiet, InTick
<1>4. ASSUME NEW t \in RunTargets, RunUntil(t) PROVE Ordered'
  BY <1>2, <1>4 DEF RunUntil, Quiet, InTick
<1>5. CASE UpdatesDone \/ TakeDue
  <2>1. pc # "due" /\ time' = time /\ records' = records /\ outbound' = outbound
    BY <1>5 DEF UpdatesDone, TakeDue
  <2>2. delayed' \cup due' \subseteq delayed \cup due
    BY <1>5 DEF UpdatesDone, TakeDue
  <2> QED BY <1>2, <2>1, <2>2 DEF Quiet, InTick
<1>6. CASE EndTick
  <2>1. ToNextTick
    BY <1>6, NetworkSimAssumption DEF EndTick, ToNextTick, TypeOK
  <2>2. Quiet
    BY <1>6 DEF EndTick, Quiet
  <2> QED BY <1>1, <2>1, <2>2, OrderedFrame
<1>7. CASE \/ \E keys \in KeyLists : Attach(keys)
           \/ \E k \in Keys, e \in DOMAIN inbox : Subscribe(k, e)
           \/ \E r \in Rules : AddFault(r)
           \/ UNCHANGED vars
  BY <1>3, <1>7 DEF Attach, Subscribe, AddFault, vars
<1> QED BY <1>1, <1>4, <1>5, <1>6, <1>7, InjectOrdered, UpdateOrdered, RouteOrdered,
           DeliverDueOrdered DEF Next, Call, Tick

\* A message is overtaken by a later one of its key only because it was held
\* back, and by another held one only because that was released in an earlier
\* tick: the engine itself never reorders.
THEOREM NoOtherOvertaking == Spec => []OvertakenOnlyWhenDelayed
<1>1. Init => Split /\ Ruled /\ Ordered
  <2> SUFFICES ASSUME Init PROVE Split /\ Ruled /\ Ordered
    OBVIOUS
  <2>1. records = <<>> /\ outbound = <<>> /\ delayed = {} /\ due = {} /\ faults = <<>>
    BY DEF Init
  <2>2. Ordered
    BY <2>1 DEF Ordered, InTurn, Released, OvertakenOnlyWhenDelayed, Delivered
  <2>3. Ruled
    BY <2>1 DEF Ruled
  <2>4. Split
    BY DEF Init, Split, OutIds, HeldIds, DoneIds, Settled, OutOnce, HeldOnce, DoneOnce
  <2> QED BY <2>2, <2>3, <2>4
<1>2. Ordered => OvertakenOnlyWhenDelayed
  BY DEF Ordered
<1> QED BY <1>1, <1>2, TypeCorrect, SplitStep, RuledStep, OrderedStep, PTL DEF Spec

=============================================================================
