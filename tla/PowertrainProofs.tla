-------------------------- MODULE PowertrainProofs --------------------------
(***************************************************************************)
(* The time bounds of the powertrain, for all periods, steps and timeouts, *)
(* and for any stimuli: the motor stops and resumes in time, and a charger *)
(* fault never is what the VCU alone depends on.                           *)
(*                                                                         *)
(* Each ECU's `next - period` is the tick in which it last sent.  A value  *)
(* that is held somewhere along the way, in the VCU's copy of the charger's*)
(* state, in the motor's latched bit or in its status, was right when it   *)
(* was sent; if it is wrong now, Permitted has changed since.              *)
(***************************************************************************)
EXTENDS Powertrain, SequenceTheorems, TLAPS

-----------------------------------------------------------------------------
(* Types.                                                                  *)

StatusFrames == [id : {"status"}, state : ChargerStates]
EnableFrames == [id : {"enable"}, on : BOOLEAN]
Frames == StatusFrames \cup EnableFrames

EcusOK ==
  /\ charger \in [state : ChargerStates, request : BOOLEAN, lastBattery : Nat \cup {None},
                  full : BOOLEAN \cup {None}, next : Nat]
  /\ vcu \in [battery : BatteryStates, over : BOOLEAN \cup {None}, lastBattery : Nat \cup {None},
              brake : BOOLEAN \cup {None}, drive : BOOLEAN \cup {None},
              charger : ChargerStates \cup {None}, next : Nat]
  /\ motor \in [enabled : BOOLEAN, next : Nat, reported : {"RUNNING", "SAFE", None}]

\* What may be in the queue: one frame of each of the ECUs that have updated.
Queue ==
  \/ outbound = <<>>
  \/ pc \in {"vcu", "motor", "route"} /\ \E s \in StatusFrames : outbound = <<s>>
  \/ pc \in {"motor", "route"} /\ \E e \in EnableFrames : outbound = <<e>>
  \/ pc \in {"motor", "route"} /\ \E s \in StatusFrames, e \in EnableFrames : outbound = <<s, e>>

TypeOK ==
  /\ time \in Nat
  /\ pc \in {"idle", "charger", "vcu", "motor", "route"}
  /\ EcusOK
  /\ Queue
  /\ since \in Int /\ since <= time
  /\ lost \in BOOLEAN

-----------------------------------------------------------------------------
(* Arithmetic of periods.                                                  *)

\* Two multiples of the step are the same or a step apart.
LEMMA StepApart ==
  ASSUME NEW s \in Nat \ {0}, NEW n \in Nat, NEW q \in Nat, s * n < s * q
  PROVE  s * n + s <= s * q
<1>1. n < q
  <2>1. SUFFICES ASSUME n >= q PROVE FALSE
    OBVIOUS
  <2>2. PICK d \in Nat : n = q + d
    <3>1. n - q \in Nat /\ n = q + (n - q)
      BY <2>1
    <3> QED BY <3>1
  <2>3. s * n = s * q + s * d
    BY <2>2
  <2>4. s * d >= 0
    OBVIOUS
  <2> QED BY <2>3, <2>4
<1>2. PICK d \in Nat : q = n + 1 + d
  <2>1. q - n - 1 \in Nat /\ q = n + 1 + (q - n - 1)
    BY <1>1
  <2> QED BY <2>1
<1>3. s * q = s * n + s + s * d
  BY <1>2
<1>4. s * d >= 0
  OBVIOUS
<1> QED BY <1>3, <1>4

\* The engine keeps a period to the step: it is never shorter than asked, and a
\* tick that is still within the period has a next one within what is kept.
LEMMA KeptBound ==
  ASSUME NEW p \in Nat \ {0}
  PROVE  /\ Kept(p) \in Nat
         /\ p <= Kept(p)
         /\ \A n \in Nat : StepUs * n < p => StepUs * n + StepUs <= Kept(p)
<1>1. StepUs \in Nat \ {0}
  BY PowertrainAssumption
<1> DEFINE q == (p + StepUs - 1) \div StepUs
<1>2. /\ p + StepUs - 1 \in Nat
      /\ q \in Nat
      /\ p + StepUs - 1 < StepUs * q + StepUs
  BY <1>1
<1> HIDE DEF q
<1>3. StepUs * q \in Nat /\ p <= StepUs * q
  BY <1>1, <1>2
<1>4. Kept(p) = StepUs * q
  BY DEF Kept, q
<1>5. ASSUME NEW n \in Nat, StepUs * n < p
      PROVE  StepUs * n + StepUs <= StepUs * q
  <2>1. StepUs * n \in Nat
    BY <1>1
  <2>2. StepUs * n < StepUs * q
    BY <1>3, <1>5, <2>1
  <2> QED BY <1>1, <1>2, <2>2, StepApart
<1> QED BY <1>3, <1>4, <1>5

-----------------------------------------------------------------------------
(* Type correctness.                                                       *)

LEMMA Constants ==
  /\ StepUs \in Nat \ {0} /\ ChargerPeriod \in Nat \ {0}
  /\ VcuPeriod \in Nat \ {0} /\ MotorPeriod \in Nat \ {0}
  /\ ChargerLimit \in Nat /\ VcuLimit \in Nat /\ MaxTime \in Nat
BY PowertrainAssumption

LEMMA InitType == Init => TypeOK
<1> SUFFICES ASSUME Init PROVE TypeOK
  OBVIOUS
<1>1. charger \in [state : ChargerStates, request : BOOLEAN, lastBattery : Nat \cup {None},
                   full : BOOLEAN \cup {None}, next : Nat]
  BY DEF Init, ChargerStates
<1>2. vcu \in [battery : BatteryStates, over : BOOLEAN \cup {None}, lastBattery : Nat \cup {None},
              brake : BOOLEAN \cup {None}, drive : BOOLEAN \cup {None},
              charger : ChargerStates \cup {None}, next : Nat]
  BY DEF Init, BatteryStates
<1>3. motor \in [enabled : BOOLEAN, next : Nat, reported : {"RUNNING", "SAFE", None}]
  BY DEF Init
<1>4. time = 0 /\ pc = "idle" /\ outbound = <<>> /\ since = 0 /\ lost = FALSE
  BY Zenon DEF Init
<1>5. EcusOK
  BY <1>1, <1>2, <1>3 DEF EcusOK
<1>6. Queue
  BY <1>4 DEF Queue
<1>7. since \in Int /\ since <= time /\ time \in Nat
  BY <1>4
<1>8. lost \in BOOLEAN /\ pc \in {"idle", "charger", "vcu", "motor", "route"}
  BY <1>4
<1> QED BY <1>5, <1>6, <1>7, <1>8 DEF TypeOK

LEMMA TrackType ==
  ASSUME TypeOK, TrackPermission, time' \in Nat, time' >= time
  PROVE  since' \in Int /\ since' <= time'
BY DEF TypeOK, TrackPermission

\* What a battery frame leaves in the two ECUs that listen to it.
LEMMA BatteryHeard ==
  ASSUME TypeOK, NEW f \in BatteryFrames, Deliver(f)
  PROVE  /\ charger' = [state |-> charger.state, request |-> charger.request, lastBattery |-> time,
                        full |-> Heard(f.full, charger.full), next |-> charger.next]
         /\ vcu' = [battery |-> Heard(f.state, vcu.battery), over |-> Heard(f.over, vcu.over),
                    lastBattery |-> time, brake |-> vcu.brake, drive |-> vcu.drive,
                    charger |-> vcu.charger, next |-> vcu.next]
         /\ motor' = motor
<1>1. f.id = "battery"
  BY DEF BatteryFrames
<1>2. motor' = motor
  BY <1>1 DEF Deliver, MotorHears
<1> DEFINE c == [charger EXCEPT !.lastBattery = time]
           v == [vcu EXCEPT !.lastBattery = time]
           w == [v EXCEPT !.battery = Heard(f.state, vcu.battery)]
<1>3. charger' = [c EXCEPT !.full = Heard(f.full, charger.full)]
  BY <1>1, Zenon DEF Deliver, ChargerHears
<1>4. vcu' = [w EXCEPT !.over = Heard(f.over, vcu.over)]
  BY <1>1, Zenon DEF Deliver, VcuHears
<1>5. c = [state |-> charger.state, request |-> charger.request, lastBattery |-> time,
           full |-> charger.full, next |-> charger.next]
  BY DEF TypeOK, EcusOK
<1>6. v = [battery |-> vcu.battery, over |-> vcu.over, lastBattery |-> time, brake |-> vcu.brake,
           drive |-> vcu.drive, charger |-> vcu.charger, next |-> vcu.next]
  BY DEF TypeOK, EcusOK
<1> HIDE DEF c, v
<1>7. w = [battery |-> Heard(f.state, vcu.battery), over |-> vcu.over, lastBattery |-> time,
           brake |-> vcu.brake, drive |-> vcu.drive, charger |-> vcu.charger, next |-> vcu.next]
  BY <1>6
<1> HIDE DEF w
<1> QED BY <1>2, <1>3, <1>4, <1>5, <1>7

\* What the other frames leave: one field of one of the three.
LEMMA OthersHeard ==
  ASSUME TypeOK, NEW f \in (Stimuli \ BatteryFrames) \cup Frames, Deliver(f)
  PROVE  /\ f.id \in {"request", "brake", "driver", "status", "enable"}
         /\ charger' = IF f.id = "request" THEN [charger EXCEPT !.request = f.on] ELSE charger
         /\ vcu' = IF f.id = "brake" THEN [vcu EXCEPT !.brake = f.on]
                   ELSE IF f.id = "driver" THEN [vcu EXCEPT !.drive = f.on]
                   ELSE IF f.id = "status" THEN [vcu EXCEPT !.charger = f.state]
                   ELSE vcu
         /\ motor' = IF f.id = "enable" THEN [motor EXCEPT !.enabled = f.on] ELSE motor
<1>1. f.id \in {"request", "brake", "driver", "status", "enable"}
  BY DEF Stimuli, Frames, StatusFrames, EnableFrames
<1>2. charger' = IF f.id = "request" THEN [charger EXCEPT !.request = f.on] ELSE charger
  BY <1>1, Zenon DEF Deliver, ChargerHears
<1>3. f.id = "request" \/ f.id = "brake" \/ f.id = "driver" \/ f.id = "status" \/ f.id = "enable"
  BY <1>1
<1>4. vcu' = IF f.id = "brake" THEN [vcu EXCEPT !.brake = f.on]
             ELSE IF f.id = "driver" THEN [vcu EXCEPT !.drive = f.on]
             ELSE IF f.id = "status" THEN [vcu EXCEPT !.charger = f.state]
             ELSE vcu
  BY <1>3, Zenon DEF Deliver, VcuHears
<1>5. motor' = IF f.id = "enable" THEN [motor EXCEPT !.enabled = f.on] ELSE motor
  BY <1>1, Zenon DEF Deliver, MotorHears
<1> QED BY <1>1, <1>2, <1>4, <1>5

LEMMA HearsType ==
  ASSUME TypeOK, NEW f \in Stimuli \cup Frames, Deliver(f)
  PROVE  EcusOK'
<1>1. CASE f \in BatteryFrames
  <2>1. /\ f.state \in BatteryStates \cup {Unread}
        /\ f.over \in BOOLEAN \cup {Unread}
        /\ f.full \in BOOLEAN \cup {Unread}
    BY <1>1 DEF BatteryFrames
  <2>2. /\ Heard(f.full, charger.full) \in BOOLEAN \cup {None}
        /\ Heard(f.state, vcu.battery) \in BatteryStates
        /\ Heard(f.over, vcu.over) \in BOOLEAN \cup {None}
    BY <2>1 DEF Heard, TypeOK, EcusOK
  <2> QED BY <1>1, <2>2, BatteryHeard DEF TypeOK, EcusOK
<1>2. CASE f \in (Stimuli \ BatteryFrames) \cup Frames
  <2>1. /\ f.id \in {"request", "brake", "driver", "enable"} => f.on \in BOOLEAN
        /\ f.id = "status" => f.state \in ChargerStates
    BY <1>2 DEF Stimuli, Frames, StatusFrames, EnableFrames
  <2> QED BY <1>2, <2>1, OthersHeard DEF TypeOK, EcusOK
<1> QED BY <1>1, <1>2


\* Sequences of at most two frames.
LEMMA AppendShort ==
  ASSUME NEW a, NEW b
  PROVE  Append(<<>>, a) = <<a>> /\ Append(<<a>>, b) = <<a, b>>
<1>1. <<>> \in Seq({a, b}) /\ <<a>> \in Seq({a, b}) /\ <<a, b>> \in Seq({a, b})
  OBVIOUS
<1>2. Len(<<>>) = 0 /\ Len(<<a>>) = 1 /\ Len(<<a, b>>) = 2
  OBVIOUS
<1>3. /\ Append(<<>>, a) \in Seq({a, b}) /\ Len(Append(<<>>, a)) = 1
      /\ Append(<<>>, a)[1] = a
  BY <1>1, <1>2, AppendProperties
<1>4. /\ Append(<<a>>, b) \in Seq({a, b}) /\ Len(Append(<<a>>, b)) = 2
      /\ Append(<<a>>, b)[1] = a /\ Append(<<a>>, b)[2] = b
  BY <1>1, <1>2, AppendProperties
<1>5. Append(<<>>, a) = <<a>>
  BY <1>1, <1>2, <1>3, SeqEqual
<1>6. \A i \in 1 .. 2 : Append(<<a>>, b)[i] = <<a, b>>[i]
  BY <1>4
<1>7. Append(<<a>>, b) = <<a, b>>
  BY <1>1, <1>2, <1>4, <1>6, SeqEqual
<1> QED BY <1>5, <1>7
LEMMA TailShort ==
  /\ \A a : Head(<<a>>) = a /\ Tail(<<a>>) = <<>>
  /\ \A a, b : Head(<<a, b>>) = a /\ Tail(<<a, b>>) = <<b>>
  OBVIOUS
LEMMA NotEmpty ==
  /\ \A a : <<a>> # <<>>
  /\ \A a, b : <<a, b>> # <<>>
  OBVIOUS

LEMMA QueueFacts ==
  ASSUME Queue
  PROVE  /\ pc \in {"idle", "charger"} => outbound = <<>>
         /\ pc = "vcu" => outbound = <<>> \/ \E s \in StatusFrames : outbound = <<s>>
BY DEF Queue

LEMMA StimulusType ==
  ASSUME TypeOK, NEW f \in Stimuli, Stimulus(f)
  PROVE  TypeOK'
<1>1. EcusOK'
  BY HearsType DEF Stimulus
<1>2. time' = time /\ pc' = pc /\ outbound' = outbound /\ lost' = lost
  BY DEF Stimulus
<1>3. since' \in Int /\ since' <= time'
  BY <1>2, TrackType DEF Stimulus, TypeOK
<1>4. Queue'
  BY <1>2 DEF TypeOK, Queue
<1> QED BY <1>1, <1>2, <1>3, <1>4 DEF TypeOK

LEMMA StartTickType ==
  ASSUME TypeOK, StartTick
  PROVE  TypeOK'
<1>1. pc' = "charger" /\ outbound' = <<>>
  BY QueueFacts DEF StartTick, TypeOK
<1>2. Queue'
  BY <1>1 DEF Queue
<1> QED BY <1>1, <1>2 DEF StartTick, TypeOK, EcusOK

LEMMA ChargerUpdateType ==
  ASSUME TypeOK, ChargerUpdate
  PROVE  /\ TypeOK'
         /\ outbound' = IF Due(charger) THEN <<[id |-> "status", state |-> ChargerState]>> ELSE <<>>
<1>1. ChargerState \in ChargerStates
  BY DEF ChargerState, ChargerStates
<1>2. outbound = <<>>
  BY QueueFacts DEF ChargerUpdate, TypeOK
<1>3. outbound' = IF Due(charger) THEN <<[id |-> "status", state |-> ChargerState]>> ELSE <<>>
  BY <1>2, AppendShort DEF ChargerUpdate
<1>4. Queue'
  <2>1. [id |-> "status", state |-> ChargerState] \in StatusFrames
    BY <1>1 DEF StatusFrames
  <2> QED BY <1>3, <2>1 DEF Queue, ChargerUpdate
<1>5. charger' \in [state : ChargerStates, request : BOOLEAN, lastBattery : Nat \cup {None},
                    full : BOOLEAN \cup {None}, next : Nat]
  <2> DEFINE c == [charger EXCEPT !.state = ChargerState]
  <2>1. c \in [state : ChargerStates, request : BOOLEAN, lastBattery : Nat \cup {None},
               full : BOOLEAN \cup {None}, next : Nat]
    BY <1>1 DEF TypeOK, EcusOK
  <2>2. charger' = c \/ charger' = [c EXCEPT !.next = time + ChargerPeriod]
    BY Zenon DEF ChargerUpdate
  <2> HIDE DEF c
  <2> QED BY <2>1, <2>2, Constants DEF TypeOK
<1>6. EcusOK'
  BY <1>5 DEF ChargerUpdate, EcusOK, TypeOK
<1>7. time' = time /\ pc' = "vcu" /\ lost' = lost
  BY DEF ChargerUpdate
<1>8. since' \in Int /\ since' <= time'
  BY <1>7, TrackType DEF ChargerUpdate, TypeOK
<1> QED BY <1>3, <1>4, <1>6, <1>7, <1>8 DEF TypeOK

\* The queue behind the VCU's update: the charger's frame, if any, and its own.
LEMMA VcuUpdateType ==
  ASSUME TypeOK, VcuUpdate
  PROVE  /\ TypeOK'
         /\ ~Due(vcu) => outbound' = outbound
         /\ Due(vcu) => \/ outbound = <<>> /\ outbound' = <<[id |-> "enable", on |-> Enable]>>
                        \/ \E s \in StatusFrames :
                             outbound = <<s>> /\ outbound' = <<s, [id |-> "enable", on |-> Enable]>>
<1>1. [id |-> "enable", on |-> Enable] \in EnableFrames
  <2>1. Enable \in BOOLEAN
    BY DEF Enable
  <2> QED BY <2>1 DEF EnableFrames
<1>2. outbound = <<>> \/ \E s \in StatusFrames : outbound = <<s>>
  BY QueueFacts DEF VcuUpdate, TypeOK
<1>3. /\ ~Due(vcu) => outbound' = outbound
      /\ Due(vcu) => \/ outbound = <<>> /\ outbound' = <<[id |-> "enable", on |-> Enable]>>
                     \/ \E s \in StatusFrames :
                          outbound = <<s>> /\ outbound' = <<s, [id |-> "enable", on |-> Enable]>>
  BY <1>2, AppendShort DEF VcuUpdate
<1>4. Queue'
  BY <1>1, <1>2, <1>3 DEF Queue, VcuUpdate
<1>5. vcu' = (IF Due(vcu) THEN [vcu EXCEPT !.next = time + VcuPeriod] ELSE vcu)
  BY Zenon DEF VcuUpdate
<1>6. charger' = charger /\ motor' = motor
  BY DEF VcuUpdate
<1>7. EcusOK'
  BY <1>5, <1>6, Constants DEF EcusOK, TypeOK
<1> QED BY <1>3, <1>4, <1>7 DEF VcuUpdate, TypeOK

LEMMA MotorUpdateType ==
  ASSUME TypeOK, MotorUpdate
  PROVE  TypeOK'
<1>1. motor' \in [enabled : BOOLEAN, next : Nat, reported : {"RUNNING", "SAFE", None}]
  <2> DEFINE m == [motor EXCEPT !.reported = IF motor.enabled THEN "RUNNING" ELSE "SAFE"]
  <2>1. m \in [enabled : BOOLEAN, next : Nat, reported : {"RUNNING", "SAFE", None}]
    BY DEF TypeOK, EcusOK
  <2>2. motor' = motor \/ motor' = [m EXCEPT !.next = time + MotorPeriod]
    BY Zenon DEF MotorUpdate
  <2> HIDE DEF m
  <2> QED BY <2>1, <2>2, Constants DEF TypeOK, EcusOK
<1>2. Queue'
  BY DEF MotorUpdate, TypeOK, Queue
<1>3. EcusOK'
  BY <1>1 DEF MotorUpdate, EcusOK, TypeOK
<1> QED BY <1>2, <1>3 DEF MotorUpdate, TypeOK

\* The head of the queue, and what is left.
LEMMA RouteQueue ==
  ASSUME Queue, outbound # <<>>
  PROVE  /\ Head(outbound) \in Frames
         /\ \/ /\ Head(outbound) \in StatusFrames /\ outbound = <<Head(outbound)>>
               /\ Tail(outbound) = <<>>
            \/ /\ Head(outbound) \in EnableFrames /\ outbound = <<Head(outbound)>>
               /\ Tail(outbound) = <<>>
            \/ /\ Head(outbound) \in StatusFrames
               /\ \E e \in EnableFrames : outbound = <<Head(outbound), e>> /\ Tail(outbound) = <<e>>
<1>1. CASE \E s \in StatusFrames : outbound = <<s>>
  BY <1>1, TailShort DEF Frames
<1>2. CASE \E e \in EnableFrames : outbound = <<e>>
  BY <1>2, TailShort DEF Frames
<1>3. CASE \E s \in StatusFrames, e \in EnableFrames : outbound = <<s, e>>
  BY <1>3, TailShort DEF Frames
<1> QED BY <1>1, <1>2, <1>3 DEF Queue

LEMMA RouteType ==
  ASSUME TypeOK, Route
  PROVE  TypeOK'
<1>1. time' = time /\ pc = "route" /\ pc' = pc /\ since' = since /\ lost' \in BOOLEAN
  BY DEF Route, TypeOK
<1>2. EcusOK'
  <2>1. CASE Deliver(Head(outbound))
    BY <2>1, RouteQueue, HearsType DEF Route, TypeOK
  <2>2. CASE UNCHANGED <<charger, vcu, motor>>
    BY <2>2 DEF TypeOK, EcusOK
  <2> QED BY <2>1, <2>2 DEF Route
<1>3. Queue'
  <2>1. outbound' = Tail(outbound) /\ outbound # <<>> /\ Queue
    BY DEF Route, TypeOK
  <2>2. outbound' = <<>> \/ \E e \in EnableFrames : outbound' = <<e>>
    BY <2>1, RouteQueue
  <2> QED BY <1>1, <2>2 DEF Queue
<1> QED BY <1>1, <1>2, <1>3 DEF TypeOK

LEMMA EndTickType ==
  ASSUME TypeOK, EndTick
  PROVE  TypeOK'
<1>1. time' = time + StepUs /\ time' \in Nat /\ time' >= time
  BY Constants DEF EndTick, TypeOK
<1>2. since' \in Int /\ since' <= time'
  BY <1>1, TrackType DEF EndTick
<1>3. Queue'
  BY DEF EndTick, Queue
<1>4. EcusOK'
  BY DEF EndTick, TypeOK, EcusOK
<1> QED BY <1>1, <1>2, <1>3, <1>4 DEF EndTick, TypeOK

LEMMA StepType ==
  ASSUME TypeOK, [Next]_vars
  PROVE  TypeOK'
<1>1. CASE UNCHANGED vars
  BY <1>1 DEF vars, TypeOK, EcusOK, Queue
<1>2. CASE Next
  BY <1>2, StimulusType, StartTickType, ChargerUpdateType, VcuUpdateType, MotorUpdateType,
     RouteType, EndTickType DEF Next
<1> QED BY <1>1, <1>2

-----------------------------------------------------------------------------
(* Timers.  `next - period` is the tick in which an ECU last sent, but for *)
(* the start, when it has not sent and is due at once.                     *)

Timer(now, next, period) ==
  /\ \/ now = 0 /\ next = 0
     \/ \E n \in Nat : now = next - period + StepUs * n
  /\ now <= next - period + Kept(period)
  /\ next - period <= now

Timers ==
  /\ Timer(time, charger.next, ChargerPeriod)
  /\ Timer(time, vcu.next, VcuPeriod)
  /\ Timer(time, motor.next, MotorPeriod)
  /\ pc \in {"vcu", "motor", "route"} => time < charger.next
  /\ pc \in {"motor", "route"} => time < vcu.next
  /\ pc = "route" => time < motor.next

LEMMA TimerStarts ==
  ASSUME NEW p \in Nat \ {0}
  PROVE  Timer(0, 0, p)
BY KeptBound DEF Timer

LEMMA TimerSends ==
  ASSUME NEW t \in Nat, NEW p \in Nat \ {0}
  PROVE  Timer(t, t + p, p)
<1>1. t = t + p - p + StepUs * 0
  BY Constants
<1>2. Kept(p) \in Nat
  BY KeptBound
<1> QED BY <1>1, <1>2 DEF Timer

LEMMA TimerUpdates ==
  ASSUME NEW t \in Nat, NEW next \in Nat, NEW p \in Nat \ {0}, Timer(t, next, p)
  PROVE  LET later == IF t >= next THEN t + p ELSE next
         IN  Timer(t, later, p) /\ t < later
BY TimerSends

LEMMA TimerTicks ==
  ASSUME NEW t \in Nat, NEW next \in Nat, NEW p \in Nat \ {0}, Timer(t, next, p), t < next
  PROVE  Timer(t + StepUs, next, p)
<1>1. PICK n \in Nat : t = next - p + StepUs * n
  BY DEF Timer
<1>2. StepUs * n \in Nat /\ StepUs * n < p
  BY <1>1, Constants
<1>3. StepUs * n + StepUs <= Kept(p) /\ Kept(p) \in Nat
  BY <1>2, KeptBound
<1>4. StepUs * (n + 1) = StepUs * n + StepUs
  BY Constants
<1>5. t + StepUs = next - p + StepUs * (n + 1) /\ n + 1 \in Nat
  BY <1>1, <1>2, <1>4, Constants
<1> QED BY <1>1, <1>2, <1>3, <1>5, Constants DEF Timer

-----------------------------------------------------------------------------
(* What the actions do to the fields that the proofs are about.            *)

LEMMA StimulusEffect ==
  ASSUME TypeOK, NEW f \in Stimuli, Stimulus(f)
  PROVE  /\ time' = time /\ pc' = pc /\ pc \in {"idle", "route"}
         /\ outbound' = outbound /\ lost' = lost
         /\ charger'.next = charger.next /\ charger'.state = charger.state
         /\ vcu'.next = vcu.next /\ vcu'.charger = vcu.charger
         /\ motor' = motor
         /\ vcu.lastBattery = charger.lastBattery => vcu'.lastBattery = charger'.lastBattery
<1>1. CASE f \in BatteryFrames
  BY <1>1, BatteryHeard DEF Stimulus
<1>2. CASE f \in Stimuli \ BatteryFrames
  <2>1. f.id \notin {"status", "enable"}
    BY <1>2 DEF Stimuli
  <2> QED BY <1>2, <2>1, OthersHeard DEF Stimulus, TypeOK, EcusOK
<1> QED BY <1>1, <1>2

LEMMA ChargerEffect ==
  ASSUME TypeOK, ChargerUpdate
  PROVE  /\ time' = time /\ pc = "charger" /\ pc' = "vcu" /\ lost' = lost
         /\ vcu' = vcu /\ motor' = motor
         /\ charger'.next = IF Due(charger) THEN time + ChargerPeriod ELSE charger.next
         /\ charger'.state = ChargerState
         /\ charger'.lastBattery = charger.lastBattery
<1> DEFINE c == [charger EXCEPT !.state = ChargerState]
<1>1. /\ c.state = ChargerState /\ c.lastBattery = charger.lastBattery /\ c.next = charger.next
      /\ c \in [state : {ChargerState}, request : BOOLEAN, lastBattery : Nat \cup {None},
                full : BOOLEAN \cup {None}, next : Nat]
  BY DEF TypeOK, EcusOK
<1>2. charger' = IF Due(charger) THEN [c EXCEPT !.next = time + ChargerPeriod] ELSE c
  BY Zenon DEF ChargerUpdate
<1> HIDE DEF c
<1>3. /\ charger'.next = IF Due(charger) THEN time + ChargerPeriod ELSE charger.next
      /\ charger'.state = ChargerState
      /\ charger'.lastBattery = charger.lastBattery
  BY <1>1, <1>2
<1> QED BY <1>3 DEF ChargerUpdate

LEMMA VcuEffect ==
  ASSUME TypeOK, VcuUpdate
  PROVE  /\ time' = time /\ pc = "vcu" /\ pc' = "motor" /\ lost' = lost /\ since' = since
         /\ charger' = charger /\ motor' = motor
         /\ vcu' = IF Due(vcu) THEN [vcu EXCEPT !.next = time + VcuPeriod] ELSE vcu
BY DEF VcuUpdate

LEMMA MotorEffect ==
  ASSUME TypeOK, MotorUpdate
  PROVE  /\ time' = time /\ pc = "motor" /\ pc' = "route" /\ lost' = lost /\ since' = since
         /\ charger' = charger /\ vcu' = vcu /\ outbound' = outbound
         /\ motor'.enabled = motor.enabled
         /\ motor'.next = IF Due(motor) THEN time + MotorPeriod ELSE motor.next
         /\ motor'.reported = IF Due(motor) THEN (IF motor.enabled THEN "RUNNING" ELSE "SAFE")
                              ELSE motor.reported
<1> DEFINE m == [motor EXCEPT !.reported = IF motor.enabled THEN "RUNNING" ELSE "SAFE"]
<1>1. m = [enabled |-> motor.enabled, next |-> motor.next,
           reported |-> IF motor.enabled THEN "RUNNING" ELSE "SAFE"]
  BY DEF TypeOK, EcusOK
<1>2. motor' = IF Due(motor) THEN [m EXCEPT !.next = time + MotorPeriod] ELSE motor
  BY Zenon DEF MotorUpdate
<1> HIDE DEF m
<1>3. /\ motor'.enabled = motor.enabled
      /\ motor'.next = IF Due(motor) THEN time + MotorPeriod ELSE motor.next
      /\ motor'.reported = IF Due(motor) THEN (IF motor.enabled THEN "RUNNING" ELSE "SAFE")
                           ELSE motor.reported
  BY <1>1, <1>2
<1> QED BY <1>3 DEF MotorUpdate

LEMMA RouteEffect ==
  ASSUME TypeOK, Route
  PROVE  /\ time' = time /\ pc = "route" /\ pc' = pc /\ since' = since
         /\ outbound # <<>> /\ outbound' = Tail(outbound)
         /\ charger' = charger
         /\ lost => lost'
         /\ \/ lost' /\ vcu' = vcu /\ motor' = motor
            \/ /\ Head(outbound) \in StatusFrames
               /\ vcu' = [vcu EXCEPT !.charger = Head(outbound).state] /\ motor' = motor
            \/ /\ Head(outbound) \in EnableFrames
               /\ vcu' = vcu /\ motor' = [motor EXCEPT !.enabled = Head(outbound).on]
<1>1. Head(outbound) \in StatusFrames \/ Head(outbound) \in EnableFrames
  BY RouteQueue DEF Route, TypeOK, Frames
<1>2. CASE Deliver(Head(outbound)) /\ Head(outbound) \in StatusFrames
  <2>1. Head(outbound).id = "status" /\ Head(outbound) \in Frames
    BY <1>2 DEF StatusFrames, Frames
  <2> QED BY <1>2, <2>1, OthersHeard DEF Route
<1>3. CASE Deliver(Head(outbound)) /\ Head(outbound) \in EnableFrames
  <2>1. Head(outbound).id = "enable" /\ Head(outbound) \in Frames
    BY <1>3 DEF EnableFrames, Frames
  <2> QED BY <1>3, <2>1, OthersHeard DEF Route
<1>4. CASE lost' = TRUE /\ UNCHANGED <<charger, vcu, motor>>
  BY <1>4 DEF Route
<1> QED BY <1>1, <1>2, <1>3, <1>4 DEF Route

LEMMA InitTimers == Init => Timers
BY TimerStarts, Constants DEF Init, Timers

LEMMA StepTimers ==
  ASSUME TypeOK, Timers, [Next]_vars
  PROVE  Timers'
<1>1. ASSUME NEW f \in Stimuli, Stimulus(f) PROVE Timers'
  BY <1>1, StimulusEffect DEF Timers
<1>2. CASE StartTick
  BY <1>2 DEF StartTick, Timers
<1>3. CASE ChargerUpdate
  <2>1. charger'.next = IF time >= charger.next THEN time + ChargerPeriod ELSE charger.next
    BY <1>3, ChargerEffect DEF Due, TypeOK, EcusOK
  <2>2. charger.next \in Nat /\ time \in Nat
    BY DEF TypeOK, EcusOK
  <2>3. Timer(time, charger'.next, ChargerPeriod) /\ time < charger'.next
    BY <2>1, <2>2, TimerUpdates, Constants DEF Timers
  <2> QED BY <1>3, <2>3, ChargerEffect DEF Timers
<1>4. CASE VcuUpdate
  <2>1. vcu'.next = IF time >= vcu.next THEN time + VcuPeriod ELSE vcu.next
    BY <1>4, VcuEffect DEF Due, TypeOK, EcusOK
  <2>2. vcu.next \in Nat /\ time \in Nat
    BY DEF TypeOK, EcusOK
  <2>3. Timer(time, vcu'.next, VcuPeriod) /\ time < vcu'.next
    BY <2>1, <2>2, TimerUpdates, Constants DEF Timers
  <2> QED BY <1>4, <2>3, VcuEffect DEF Timers
<1>5. CASE MotorUpdate
  <2>1. motor'.next = IF time >= motor.next THEN time + MotorPeriod ELSE motor.next
    BY <1>5, MotorEffect DEF Due, TypeOK, EcusOK
  <2>2. motor.next \in Nat /\ time \in Nat
    BY DEF TypeOK, EcusOK
  <2>3. Timer(time, motor'.next, MotorPeriod) /\ time < motor'.next
    BY <2>1, <2>2, TimerUpdates, Constants DEF Timers
  <2> QED BY <1>5, <2>3, MotorEffect DEF Timers
<1>6. CASE Route
  <2>1. charger'.next = charger.next
    BY <1>6, RouteEffect
  <2>2. vcu' = vcu \/ \E s : vcu' = [vcu EXCEPT !.charger = s]
    BY <1>6, RouteEffect
  <2>3. motor' = motor \/ \E on : motor' = [motor EXCEPT !.enabled = on]
    BY <1>6, RouteEffect
  <2>4. vcu'.next = vcu.next /\ motor'.next = motor.next
    BY <2>2, <2>3 DEF TypeOK, EcusOK
  <2> QED BY <1>6, <2>1, <2>4, RouteEffect DEF Timers
<1>7. CASE EndTick
  <2>1. /\ time' = time + StepUs /\ pc = "route" /\ pc' = "idle"
        /\ UNCHANGED <<charger, vcu, motor>>
    BY <1>7 DEF EndTick
  <2>2. /\ charger.next \in Nat /\ vcu.next \in Nat /\ motor.next \in Nat /\ time \in Nat
    BY DEF TypeOK, EcusOK
  <2> QED BY <2>1, <2>2, TimerTicks, Constants DEF Timers
<1>8. CASE UNCHANGED vars
  BY <1>8 DEF vars, Timers
<1> QED BY <1>1, <1>2, <1>3, <1>4, <1>5, <1>6, <1>7, <1>8 DEF Next

-----------------------------------------------------------------------------
(* The two timeouts.  The charger and the VCU hear the same battery frames.*)

SameBattery ==
  /\ vcu.lastBattery = charger.lastBattery
  /\ pc = "vcu" /\ charger.state = "FAULT" => ~Fresh(charger.lastBattery, ChargerLimit)

LEMMA StepSameBattery ==
  ASSUME TypeOK, SameBattery, [Next]_vars
  PROVE  SameBattery'
<1>1. ASSUME NEW f \in Stimuli, Stimulus(f) PROVE SameBattery'
  BY <1>1, StimulusEffect DEF SameBattery
<1>2. CASE StartTick
  BY <1>2 DEF StartTick, SameBattery
<1>3. CASE ChargerUpdate
  <2>1. ChargerState = "FAULT" => ~Fresh(charger.lastBattery, ChargerLimit)
    BY DEF ChargerState
  <2>2. charger'.state = ChargerState /\ charger'.lastBattery = charger.lastBattery
        /\ time' = time /\ vcu' = vcu
    BY <1>3, ChargerEffect
  <2> QED BY <2>1, <2>2 DEF SameBattery, Fresh
<1>4. CASE VcuUpdate
  BY <1>4, VcuEffect DEF SameBattery, TypeOK, EcusOK
<1>5. CASE MotorUpdate
  BY <1>5, MotorEffect DEF SameBattery
<1>6. CASE Route
  <2>1. pc' = "route" /\ charger' = charger
    BY <1>6, RouteEffect
  <2>2. vcu' = vcu \/ \E s : vcu' = [vcu EXCEPT !.charger = s]
    BY <1>6, RouteEffect
  <2>3. vcu'.lastBattery = vcu.lastBattery
    BY <2>2 DEF TypeOK, EcusOK
  <2> QED BY <2>1, <2>3 DEF SameBattery
<1>7. CASE EndTick
  BY <1>7 DEF EndTick, SameBattery
<1>8. CASE UNCHANGED vars
  BY <1>8 DEF vars, SameBattery, Fresh
<1> QED BY <1>1, <1>2, <1>3, <1>4, <1>5, <1>6, <1>7, <1>8 DEF Next

LEMMA VcuStaleFirst ==
  ASSUME VcuLimit <= ChargerLimit, TypeOK, SameBattery, pc = "vcu", charger.state = "FAULT"
  PROVE  ~Fresh(vcu.lastBattery, VcuLimit)
BY Constants DEF SameBattery, Fresh, TypeOK, EcusOK

\* As long as the VCU's battery timeout is not the longer of the two (300 and
\* 500 ms in the code), a charger that faults for want of battery frames never
\* is what the VCU has to hear of: its own timeout has passed.
THEOREM FaultNeverAlone ==
  ASSUME VcuLimit <= ChargerLimit
  PROVE  Spec => []ChargerFaultNeverAlone
<1> DEFINE IInv == TypeOK /\ SameBattery
<1>1. Init => IInv
  <2>1. Init => SameBattery
    BY DEF Init, SameBattery
  <2> QED BY <2>1, InitType
<1>2. IInv /\ [Next]_vars => IInv'
  BY StepType, StepSameBattery
<1>3. IInv => ChargerFaultNeverAlone
  BY VcuStaleFirst DEF ChargerFaultNeverAlone
<1> QED BY <1>1, <1>2, <1>3, PTL DEF Spec

-----------------------------------------------------------------------------
(* The motor stops.                                                        *)

Queued(f, q) == \E i \in DOMAIN q : q[i] = f

EnableOn == [id |-> "enable", on |-> TRUE]
EnableIn(q) == \E e \in EnableFrames : Queued(e, q)
EnablePending == EnableIn(outbound)

\* The motor has latched a decision that was taken in this tick or later.
EnableHeard == IF EnablePending THEN time - Kept(VcuPeriod) ELSE vcu.next - VcuPeriod

StopsInv ==
  /\ Queued(EnableOn, outbound) => Permitted \/ since >= time
  /\ EnablePending => vcu.next = time + VcuPeriod
  /\ ~lost /\ motor.enabled => Permitted \/ since >= EnableHeard
  /\ ~lost /\ motor.reported = "RUNNING" =>
       Permitted \/ since >= motor.next - MotorPeriod - Kept(VcuPeriod)

\* If driving was permitted, or has changed since x, then it still is, or has.
LEMMA Tracked ==
  ASSUME TypeOK, TrackPermission, NEW x \in Int, x <= time'
  PROVE  /\ Permitted \/ since >= x => Permitted' \/ since' >= x
         /\ ~Permitted \/ since >= x => ~Permitted' \/ since' >= x
<1>1. Permitted \in BOOLEAN /\ Permitted' \in BOOLEAN
  BY DEF Permitted
<1>2. CASE Permitted' = Permitted
  BY <1>2 DEF TrackPermission
<1>3. CASE Permitted' # Permitted
  BY <1>3 DEF TrackPermission
<1> QED BY <1>2, <1>3

LEMMA PermittedSame ==
  ASSUME vcu.battery = vcu'.battery, vcu.over = vcu'.over, vcu.lastBattery = vcu'.lastBattery,
         vcu.drive = vcu'.drive, vcu.brake = vcu'.brake, charger.state = charger'.state, time = time'
  PROVE  Permitted' = Permitted
BY DEF Permitted, Fresh

\* What the VCU enables is permitted: what it knows of the charger may be old,
\* but then its own battery timeout has passed.
LEMMA EnableIsPermitted ==
  ASSUME VcuLimit <= ChargerLimit, TypeOK, SameBattery, pc = "vcu"
  PROVE  Enable => Permitted
BY VcuStaleFirst DEF Enable, Permitted

LEMMA QueuedShort ==
  /\ \A f : ~Queued(f, <<>>)
  /\ \A f, a : Queued(f, <<a>>) <=> f = a
  /\ \A f, a, b : Queued(f, <<a, b>>) <=> f = a \/ f = b
<1>1. \A f : ~Queued(f, <<>>)
  BY DEF Queued
<1>2. \A f, a : Queued(f, <<a>>) <=> f = a
  BY DEF Queued
<1>3. ASSUME NEW f, NEW a, NEW b PROVE Queued(f, <<a, b>>) <=> f = a \/ f = b
  <2>1. DOMAIN <<a, b>> = {1, 2} /\ <<a, b>>[1] = a /\ <<a, b>>[2] = b
    OBVIOUS
  <2> QED BY <2>1 DEF Queued
<1> QED BY <1>1, <1>2, <1>3

LEMMA EnableInShort ==
  /\ ~EnableIn(<<>>)
  /\ \A s \in StatusFrames : ~EnableIn(<<s>>)
  /\ \A e \in EnableFrames : EnableIn(<<e>>)
  /\ \A s \in StatusFrames, e \in EnableFrames : EnableIn(<<s, e>>)
<1>1. \A s \in StatusFrames, f \in EnableFrames : f # s
  BY DEF StatusFrames, EnableFrames
<1> QED BY <1>1, QueuedShort DEF EnableIn

LEMMA EnableOnIsEnable == EnableOn \in EnableFrames
BY DEF EnableOn, EnableFrames

\* The bounds of the invariant lie in the past.
LEMMA HeardInThePast ==
  ASSUME TypeOK, Timers
  PROVE  /\ EnableHeard \in Int /\ EnableHeard <= time
         /\ time - Kept(VcuPeriod) <= EnableHeard \/ EnablePending
         /\ motor.next - MotorPeriod - Kept(VcuPeriod) \in Int
         /\ motor.next - MotorPeriod - Kept(VcuPeriod) <= time
<1>1. Kept(VcuPeriod) \in Nat
  BY KeptBound, Constants
<1>2. time \in Nat /\ vcu.next \in Nat /\ motor.next \in Nat
  BY DEF TypeOK, EcusOK
<1>3. /\ vcu.next - VcuPeriod <= time
      /\ time <= vcu.next - VcuPeriod + Kept(VcuPeriod)
      /\ motor.next - MotorPeriod <= time
  BY DEF Timers, Timer
<1> QED BY <1>1, <1>2, <1>3, Constants DEF EnableHeard

\* A step of the clock or of an ECU that leaves the queue, the motor and the
\* VCU's timer alone.
LEMMA StopsKept ==
  ASSUME TypeOK, Timers, StopsInv, TrackPermission,
         time' \in Nat, time' >= time, pc' # pc => ~EnablePending /\ ~EnablePending',
         time' # time => ~EnablePending /\ ~EnablePending',
         EnablePending' <=> EnablePending, Queued(EnableOn, outbound') => Queued(EnableOn, outbound) /\ time' = time,
         vcu'.next = vcu.next, motor' = motor, lost' = lost
  PROVE  StopsInv'
<1>1. EnableHeard' = EnableHeard
  BY DEF EnableHeard
<1>2. /\ EnableHeard \in Int /\ EnableHeard <= time'
      /\ motor.next - MotorPeriod - Kept(VcuPeriod) \in Int
      /\ motor.next - MotorPeriod - Kept(VcuPeriod) <= time'
  BY HeardInThePast DEF TypeOK
<1>3. Queued(EnableOn, outbound') => Permitted' \/ since' >= time'
  BY Tracked DEF StopsInv, TypeOK
<1>4. ~lost' /\ motor'.enabled => Permitted' \/ since' >= EnableHeard'
  BY <1>1, <1>2, Tracked DEF StopsInv
<1>5. ~lost' /\ motor'.reported = "RUNNING" =>
        Permitted' \/ since' >= motor'.next - MotorPeriod - Kept(VcuPeriod)
  BY <1>2, Tracked DEF StopsInv
<1>6. EnablePending' => vcu'.next = time' + VcuPeriod
  BY DEF StopsInv
<1> QED BY <1>3, <1>4, <1>5, <1>6 DEF StopsInv

LEMMA VcuUpdateStops ==
  ASSUME VcuLimit <= ChargerLimit, TypeOK, Timers, SameBattery, StopsInv, VcuUpdate
  PROVE  StopsInv'
<1> DEFINE e == [id |-> "enable", on |-> Enable]
<1>1. e \in EnableFrames /\ (e = EnableOn => Enable)
  <2>1. Enable \in BOOLEAN
    BY DEF Enable
  <2> QED BY <2>1 DEF EnableFrames, EnableOn
<1>0. /\ Due(vcu) => outbound' = <<e>> \/ \E s \in StatusFrames : outbound' = <<s, e>>
      /\ ~Due(vcu) => outbound' = outbound
  BY VcuUpdateType
<1> HIDE DEF e
<1>2. /\ time' = time /\ lost' = lost /\ since' = since /\ motor' = motor /\ pc = "vcu"
      /\ vcu' = IF Due(vcu) THEN [vcu EXCEPT !.next = time + VcuPeriod] ELSE vcu
      /\ charger' = charger
  BY VcuEffect
<1>3. Permitted' = Permitted
  BY <1>2, PermittedSame DEF TypeOK, EcusOK
<1>4. ~EnablePending
  BY <1>2, QueueFacts, EnableInShort DEF TypeOK, EnablePending
<1>5. CASE Due(vcu)
  <2>1. vcu'.next = time + VcuPeriod
    BY <1>2, <1>5 DEF TypeOK, EcusOK
  <2>2. outbound' = <<e>> \/ \E s \in StatusFrames : outbound' = <<s, e>>
    BY <1>0, <1>5
  <2>3. EnablePending'
    <3>1. Queued(e, outbound')
      <4>1. Queued(e, <<e>>) /\ \A s : Queued(e, <<s, e>>)
        BY QueuedShort
      <4> QED BY <2>2, <4>1
    <3> QED BY <1>1, <3>1 DEF EnablePending, EnableIn
  <2>4. Queued(EnableOn, outbound') => Enable
    <3>1. \A s \in StatusFrames : s # EnableOn
      BY DEF StatusFrames, EnableOn
    <3>2. Queued(EnableOn, outbound') => e = EnableOn
      <4>1. /\ Queued(EnableOn, <<e>>) => e = EnableOn
            /\ \A s : Queued(EnableOn, <<s, e>>) => EnableOn = s \/ e = EnableOn
        BY QueuedShort
      <4> QED BY <2>2, <3>1, <4>1
    <3> QED BY <1>1, <3>2
  <2>5. Queued(EnableOn, outbound') => Permitted' \/ since' >= time'
    BY <1>2, <1>3, <2>4, EnableIsPermitted
  <2>6. EnableHeard' = time - Kept(VcuPeriod)
    BY <1>2, <2>3 DEF EnableHeard
  <2>7. EnableHeard' <= EnableHeard /\ EnableHeard \in Int /\ EnableHeard' \in Int
    BY <1>4, <2>6, HeardInThePast, KeptBound, Constants DEF TypeOK
  <2>8. ~lost' /\ motor'.enabled => Permitted' \/ since' >= EnableHeard'
    BY <1>2, <1>3, <2>7 DEF StopsInv, TypeOK
  <2> QED BY <1>2, <1>3, <2>1, <2>3, <2>5, <2>8 DEF StopsInv
<1>6. CASE ~Due(vcu)
  <2>1. outbound' = outbound /\ vcu' = vcu
    BY <1>0, <1>2, <1>6
  <2> QED BY <1>2, <1>3, <2>1 DEF StopsInv, EnablePending, EnableHeard, Queued
<1> QED BY <1>5, <1>6

LEMMA MotorUpdateStops ==
  ASSUME TypeOK, Timers, StopsInv, MotorUpdate
  PROVE  StopsInv'
<1>1. /\ time' = time /\ lost' = lost /\ since' = since /\ outbound' = outbound
      /\ charger' = charger /\ vcu' = vcu /\ motor'.enabled = motor.enabled
      /\ motor'.next = IF Due(motor) THEN time + MotorPeriod ELSE motor.next
      /\ motor'.reported = IF Due(motor) THEN (IF motor.enabled THEN "RUNNING" ELSE "SAFE")
                           ELSE motor.reported
  BY MotorEffect
<1>2. Permitted' = Permitted /\ EnablePending' = EnablePending /\ EnableHeard' = EnableHeard
      /\ Queued(EnableOn, outbound') = Queued(EnableOn, outbound)
  BY <1>1 DEF Permitted, Fresh, EnablePending, EnableHeard, Queued
<1>3. Kept(VcuPeriod) \in Nat /\ time \in Nat /\ EnableHeard \in Int /\ since \in Int
      /\ time - Kept(VcuPeriod) <= EnableHeard
  BY HeardInThePast, KeptBound, Constants DEF TypeOK, EnableHeard
<1>4. ~lost' /\ motor'.reported = "RUNNING" =>
        Permitted' \/ since' >= motor'.next - MotorPeriod - Kept(VcuPeriod)
  <2>1. CASE Due(motor)
    <3>1. motor'.next - MotorPeriod - Kept(VcuPeriod) = time - Kept(VcuPeriod)
      BY <1>1, <1>3, <2>1, Constants
    <3> QED BY <1>1, <1>2, <1>3, <2>1, <3>1 DEF StopsInv
  <2>2. CASE ~Due(motor)
    BY <1>1, <1>2, <2>2 DEF StopsInv
  <2> QED BY <2>1, <2>2
<1> QED BY <1>1, <1>2, <1>4 DEF StopsInv

\* A delivery changes neither the clock nor what decides.
LEMMA RouteKeeps ==
  ASSUME TypeOK, Route
  PROVE  /\ Permitted' = Permitted /\ since' = since /\ time' = time
         /\ charger' = charger /\ vcu'.next = vcu.next
         /\ motor'.next = motor.next /\ motor'.reported = motor.reported
<1>1. vcu' = vcu \/ \E s : vcu' = [vcu EXCEPT !.charger = s]
  BY RouteEffect
<1>2. motor' = motor \/ \E on : motor' = [motor EXCEPT !.enabled = on]
  BY RouteEffect
<1>3. time' = time /\ since' = since /\ charger' = charger
  BY RouteEffect
<1>4. /\ vcu'.battery = vcu.battery /\ vcu'.over = vcu.over /\ vcu'.drive = vcu.drive
      /\ vcu'.lastBattery = vcu.lastBattery /\ vcu'.brake = vcu.brake /\ vcu'.next = vcu.next
  BY <1>1 DEF TypeOK, EcusOK
<1>5. motor'.next = motor.next /\ motor'.reported = motor.reported
  BY <1>2 DEF TypeOK, EcusOK
<1>6. Permitted' = Permitted
  BY <1>3, <1>4, PermittedSame
<1> QED BY <1>3, <1>4, <1>5, <1>6

LEMMA EnableFrameIs ==
  ASSUME NEW e \in EnableFrames
  PROVE  e.on => e = EnableOn
BY DEF EnableFrames, EnableOn

LEMMA RouteStops ==
  ASSUME TypeOK, Timers, StopsInv, Route
  PROVE  StopsInv'
<1> DEFINE h == Head(outbound)
<1>1. /\ Permitted' = Permitted /\ since' = since /\ time' = time
      /\ vcu'.next = vcu.next /\ motor'.next = motor.next /\ motor'.reported = motor.reported
  BY RouteKeeps
<1>2. /\ outbound' = Tail(outbound)
      /\ lost => lost'
      /\ \/ lost' /\ motor' = motor
         \/ h \in StatusFrames /\ motor' = motor
         \/ h \in EnableFrames /\ motor' = [motor EXCEPT !.enabled = h.on]
  BY RouteEffect
<1>3. \/ h \in StatusFrames /\ outbound = <<h>> /\ outbound' = <<>>
      \/ h \in EnableFrames /\ outbound = <<h>> /\ outbound' = <<>>
      \/ h \in StatusFrames /\ \E e \in EnableFrames : outbound = <<h, e>> /\ outbound' = <<e>>
  BY <1>2, RouteEffect, RouteQueue DEF TypeOK
<1>4. ~lost' /\ motor'.reported = "RUNNING" =>
        Permitted' \/ since' >= motor'.next - MotorPeriod - Kept(VcuPeriod)
  BY <1>1, <1>2 DEF StopsInv, TypeOK
<1> HIDE DEF h
<1>5. CASE h \in StatusFrames
  <2>1. h \notin EnableFrames
    BY <1>5 DEF StatusFrames, EnableFrames
  <2>2. /\ EnablePending' <=> EnablePending
        /\ Queued(EnableOn, outbound') => Queued(EnableOn, outbound)
    <3>1. CASE outbound = <<h>> /\ outbound' = <<>>
      <4>1. ~EnableIn(<<h>>) /\ ~EnableIn(<<>>) /\ ~Queued(EnableOn, <<>>)
        BY <1>5, EnableInShort, QueuedShort
      <4> QED BY <3>1, <4>1 DEF EnablePending
    <3>2. ASSUME NEW e \in EnableFrames, outbound = <<h, e>>, outbound' = <<e>>
          PROVE  /\ EnablePending' <=> EnablePending
                 /\ Queued(EnableOn, outbound') => Queued(EnableOn, outbound)
      <4>1. EnableIn(<<h, e>>) /\ EnableIn(<<e>>)
        BY <1>5, EnableInShort
      <4>2. Queued(EnableOn, <<e>>) => Queued(EnableOn, <<h, e>>)
        BY QueuedShort
      <4> QED BY <3>2, <4>1, <4>2 DEF EnablePending
    <3> QED BY <1>3, <2>1, <3>1, <3>2
  <2>4. ~lost' => ~lost /\ motor' = motor
    BY <1>2, <2>1 DEF TypeOK
  <2>5. EnableHeard' = EnableHeard
    BY <1>1, <2>2 DEF EnableHeard
  <2> QED BY <1>1, <1>4, <2>2, <2>4, <2>5 DEF StopsInv
<1>6. CASE h \in EnableFrames
  <2>1. h \notin StatusFrames
    BY <1>6 DEF StatusFrames, EnableFrames
  <2>2. outbound = <<h>> /\ outbound' = <<>>
    BY <1>3, <2>1
  <2>3. EnablePending /\ ~EnablePending' /\ ~Queued(EnableOn, outbound')
    BY <1>6, <2>2, EnableInShort, QueuedShort DEF EnablePending
  <2>4. EnableHeard' = time
    BY <1>1, <2>3, Constants DEF EnableHeard, StopsInv, TypeOK
  <2>5. ~lost' /\ motor'.enabled => h = EnableOn
    <3>1. ~lost' => motor' = [motor EXCEPT !.enabled = h.on]
      BY <1>2, <2>1
    <3> QED BY <1>6, <3>1, EnableFrameIs DEF TypeOK, EcusOK
  <2>6. h = EnableOn => Queued(EnableOn, outbound)
    BY <2>2, QueuedShort
  <2> QED BY <1>1, <1>4, <2>3, <2>4, <2>5, <2>6 DEF StopsInv
<1> QED BY <1>3, <1>5, <1>6

LEMMA StepStops ==
  ASSUME VcuLimit <= ChargerLimit, TypeOK, Timers, SameBattery, StopsInv, [Next]_vars
  PROVE  StopsInv'
<1>1. ASSUME NEW f \in Stimuli, Stimulus(f) PROVE StopsInv'
  <2>1. TrackPermission
    BY <1>1 DEF Stimulus
  <2> QED BY <1>1, <2>1, StimulusEffect, StopsKept DEF EnablePending, TypeOK
<1>2. CASE StartTick
  BY <1>2 DEF StartTick, StopsInv, EnablePending, EnableHeard, Permitted, Fresh
<1>3. CASE ChargerUpdate
  <2>1. TrackPermission
    BY <1>3 DEF ChargerUpdate
  <2>2. outbound = <<>> /\ (outbound' = <<>> \/ \E s \in StatusFrames : outbound' = <<s>>)
    BY <1>3, ChargerUpdateType, QueueFacts DEF ChargerUpdate, TypeOK, Queue
  <2>3. ~EnablePending /\ ~EnablePending' /\ ~Queued(EnableOn, outbound')
    BY <2>2, EnableInShort, EnableOnIsEnable DEF EnablePending, EnableIn
  <2> QED BY <1>3, <2>1, <2>3, ChargerEffect, StopsKept DEF TypeOK
<1>4. CASE VcuUpdate
  BY <1>4, VcuUpdateStops
<1>5. CASE MotorUpdate
  BY <1>5, MotorUpdateStops
<1>6. CASE Route
  BY <1>6, RouteStops
<1>7. CASE EndTick
  <2>1. outbound = <<>> /\ outbound' = <<>> /\ TrackPermission
    BY <1>7 DEF EndTick
  <2>2. ~EnablePending /\ ~EnablePending' /\ ~Queued(EnableOn, outbound')
    BY <2>1, EnableInShort, QueuedShort DEF EnablePending
  <2>3. time' \in Nat /\ time' >= time
    BY <1>7, Constants DEF EndTick, TypeOK
  <2>4. vcu' = vcu /\ motor' = motor /\ lost' = lost
    BY <1>7 DEF EndTick
  <2> QED BY <2>1, <2>2, <2>3, <2>4, StopsKept
<1>8. CASE UNCHANGED vars
  BY <1>8 DEF vars, StopsInv, EnablePending, EnableHeard, Permitted, Fresh
<1> QED BY <1>1, <1>2, <1>3, <1>4, <1>5, <1>6, <1>7, <1>8 DEF Next

\* The motor reports RUNNING for at most one VCU period, one motor period and a
\* step once driving is not permitted any more and stays so, whatever else is
\* on the bus and for whatever reason, when no frame is dropped.
THEOREM MotorStops ==
  ASSUME VcuLimit <= ChargerLimit
  PROVE  Spec => []MotorStopsInTime
<1> DEFINE IInv == TypeOK /\ Timers /\ SameBattery /\ StopsInv
<1>1. Init => IInv
  <2>1. Init => SameBattery
    BY DEF Init, SameBattery
  <2>2. Init => StopsInv
    <3> SUFFICES ASSUME Init PROVE StopsInv
      OBVIOUS
    <3>1. outbound = <<>> /\ motor.enabled = FALSE /\ motor.reported = None
      BY Zenon DEF Init
    <3>2. None # "RUNNING"
      BY PowertrainAssumption
    <3> QED BY <3>1, <3>2, EnableInShort, QueuedShort DEF StopsInv, EnablePending
  <2> QED BY <2>1, <2>2, InitType, InitTimers
<1>2. IInv /\ [Next]_vars => IInv'
  BY StepType, StepTimers, StepSameBattery, StepStops
<1>3. IInv => MotorStopsInTime
  <2> SUFFICES ASSUME IInv, ~lost, ~Permitted, motor.reported = "RUNNING",
                      time - since >= Kept(VcuPeriod) + Kept(MotorPeriod) + StepUs
               PROVE  FALSE
    BY DEF MotorStopsInTime
  <2>1. since >= motor.next - MotorPeriod - Kept(VcuPeriod)
    BY DEF StopsInv
  <2>2. time <= motor.next - MotorPeriod + Kept(MotorPeriod)
    BY DEF Timers, Timer
  <2> QED BY <2>1, <2>2, KeptBound, Constants DEF TypeOK, EcusOK
<1> QED BY <1>1, <1>2, <1>3, PTL DEF Spec

-----------------------------------------------------------------------------
(* The motor resumes.  The chain is one ECU longer: a charger's fault, and *)
(* the VCU's copy of it.                                                   *)

EnableOff == [id |-> "enable", on |-> FALSE]
StatusFault == [id |-> "status", state |-> "FAULT"]
StatusIn(q) == \E s \in StatusFrames : Queued(s, q)
StatusPending == StatusIn(outbound)

\* The VCU knows a state that the charger had in this tick or later.
StatusHeard == IF StatusPending THEN time - Kept(ChargerPeriod) ELSE charger.next - ChargerPeriod

ResumesInv ==
  /\ StatusPending => charger.next = time + ChargerPeriod
  /\ EnablePending => vcu.next = time + VcuPeriod
  /\ Queued(StatusFault, outbound) => ~Permitted \/ since >= time
  /\ ~lost /\ vcu.charger = "FAULT" => ~Permitted \/ since >= StatusHeard
  /\ ~lost /\ Queued(EnableOff, outbound) => ~Permitted \/ since >= time - Kept(ChargerPeriod)
  /\ ~lost /\ ~motor.enabled => ~Permitted \/ since >= EnableHeard - Kept(ChargerPeriod)
  /\ ~lost /\ motor.reported # "RUNNING" =>
       ~Permitted \/ since >= motor.next - MotorPeriod - Kept(VcuPeriod) - Kept(ChargerPeriod)

LEMMA StatusInShort ==
  /\ ~StatusIn(<<>>)
  /\ \A s \in StatusFrames : StatusIn(<<s>>)
  /\ \A e \in EnableFrames : ~StatusIn(<<e>>)
  /\ \A s \in StatusFrames, e \in EnableFrames : StatusIn(<<s, e>>)
<1>1. \A s \in StatusFrames, f \in EnableFrames : f # s
  BY DEF StatusFrames, EnableFrames
<1> QED BY <1>1, QueuedShort DEF StatusIn

LEMMA SpecialFrames ==
  /\ EnableOff \in EnableFrames /\ StatusFault \in StatusFrames
  /\ \A e \in EnableFrames : ~e.on => e = EnableOff
  /\ \A s \in StatusFrames : s.state = "FAULT" => s = StatusFault
  /\ \A s \in StatusFrames, e \in EnableFrames : s # e
<1>1. EnableOff \in EnableFrames /\ StatusFault \in StatusFrames
  BY DEF EnableFrames, StatusFrames, EnableOff, StatusFault, ChargerStates
<1>2. \A e \in EnableFrames : ~e.on => e = EnableOff
  BY DEF EnableFrames, EnableOff
<1>3. \A s \in StatusFrames : s.state = "FAULT" => s = StatusFault
  BY DEF StatusFrames, StatusFault
<1>4. \A s \in StatusFrames, e \in EnableFrames : s # e
  BY DEF StatusFrames, EnableFrames
<1> QED BY <1>1, <1>2, <1>3, <1>4

\* The bounds of the invariant lie in the past.
LEMMA LongAgo ==
  ASSUME TypeOK, Timers
  PROVE  /\ Kept(ChargerPeriod) \in Nat /\ Kept(VcuPeriod) \in Nat /\ EnableHeard \in Int
         /\ StatusHeard \in Int /\ StatusHeard <= time
         /\ time - Kept(ChargerPeriod) <= StatusHeard
         /\ time - Kept(ChargerPeriod) \in Int
         /\ EnableHeard - Kept(ChargerPeriod) \in Int /\ EnableHeard - Kept(ChargerPeriod) <= time
         /\ motor.next - MotorPeriod - Kept(VcuPeriod) - Kept(ChargerPeriod) \in Int
         /\ motor.next - MotorPeriod - Kept(VcuPeriod) - Kept(ChargerPeriod) <= time
<1>1. Kept(ChargerPeriod) \in Nat /\ Kept(VcuPeriod) \in Nat
  BY KeptBound, Constants
<1>2. time \in Nat /\ charger.next \in Nat /\ motor.next \in Nat
  BY DEF TypeOK, EcusOK
<1>3. /\ charger.next - ChargerPeriod <= time
      /\ time <= charger.next - ChargerPeriod + Kept(ChargerPeriod)
  BY DEF Timers, Timer
<1>4. /\ StatusHeard \in Int /\ StatusHeard <= time
      /\ time - Kept(ChargerPeriod) <= StatusHeard
  BY <1>1, <1>2, <1>3, Constants DEF StatusHeard
<1> QED BY <1>1, <1>2, <1>4, HeardInThePast, Constants

\* A step of the clock or of a stimulus: the queue and what the ECUs know of
\* each other stay.
LEMMA ResumesKept ==
  ASSUME TypeOK, Timers, ResumesInv, TrackPermission,
         time' \in Nat, time' >= time, time' # time => outbound = <<>>,
         outbound' = outbound, charger'.next = charger.next, vcu'.next = vcu.next,
         vcu'.charger = vcu.charger, motor' = motor, lost' = lost
  PROVE  ResumesInv'
<1>1. outbound = <<>> => /\ ~StatusPending /\ ~EnablePending /\ ~Queued(StatusFault, outbound)
                         /\ ~Queued(EnableOff, outbound)
  BY StatusInShort, EnableInShort, QueuedShort DEF StatusPending, EnablePending
<1>2. /\ StatusPending' <=> StatusPending
      /\ EnablePending' <=> EnablePending
      /\ Queued(StatusFault, outbound') <=> Queued(StatusFault, outbound)
      /\ Queued(EnableOff, outbound') <=> Queued(EnableOff, outbound)
  BY DEF StatusPending, EnablePending
<1>3. EnableHeard' = EnableHeard /\ StatusHeard' = StatusHeard
  BY <1>1, <1>2 DEF EnableHeard, StatusHeard
<1>4. Queued(StatusFault, outbound') => ~Permitted' \/ since' >= time'
  BY <1>1, <1>2, Tracked DEF ResumesInv, TypeOK
<1>5. ~lost' /\ vcu'.charger = "FAULT" => ~Permitted' \/ since' >= StatusHeard'
  <2>1. StatusHeard \in Int /\ StatusHeard <= time'
    BY LongAgo DEF TypeOK
  <2> QED BY <1>3, <2>1, Tracked DEF ResumesInv
<1>6. ~lost' /\ Queued(EnableOff, outbound') =>
        ~Permitted' \/ since' >= time' - Kept(ChargerPeriod)
  <2>1. time - Kept(ChargerPeriod) \in Int /\ time - Kept(ChargerPeriod) <= time'
    BY LongAgo DEF TypeOK
  <2> QED BY <1>1, <1>2, <2>1, Tracked DEF ResumesInv
<1>7. ~lost' /\ ~motor'.enabled => ~Permitted' \/ since' >= EnableHeard' - Kept(ChargerPeriod)
  <2>1. EnableHeard - Kept(ChargerPeriod) \in Int /\ EnableHeard - Kept(ChargerPeriod) <= time'
    BY LongAgo DEF TypeOK
  <2> QED BY <1>3, <2>1, Tracked DEF ResumesInv
<1>8. ~lost' /\ motor'.reported # "RUNNING" => ~Permitted' \/
        since' >= motor'.next - MotorPeriod - Kept(VcuPeriod) - Kept(ChargerPeriod)
  <2> DEFINE x == motor.next - MotorPeriod - Kept(VcuPeriod) - Kept(ChargerPeriod)
  <2>1. x \in Int /\ x <= time'
    BY LongAgo DEF TypeOK
  <2>2. ~lost /\ motor.reported # "RUNNING" => ~Permitted \/ since >= x
    BY DEF ResumesInv
  <2>3. motor'.next - MotorPeriod - Kept(VcuPeriod) - Kept(ChargerPeriod) = x
    OBVIOUS
  <2> HIDE DEF x
  <2> QED BY <2>1, <2>2, <2>3, Tracked
<1>9. (StatusPending' => charger'.next = time' + ChargerPeriod)
      /\ (EnablePending' => vcu'.next = time' + VcuPeriod)
  BY <1>1, <1>2 DEF ResumesInv
<1> QED BY <1>4, <1>5, <1>6, <1>7, <1>8, <1>9 DEF ResumesInv

LEMMA ChargerUpdateResumes ==
  ASSUME TypeOK, Timers, ResumesInv, ChargerUpdate
  PROVE  ResumesInv'
<1> DEFINE s == [id |-> "status", state |-> ChargerState]
<1>1. s \in StatusFrames /\ (s = StatusFault => ChargerState = "FAULT")
  <2>1. ChargerState \in ChargerStates
    BY DEF ChargerState, ChargerStates
  <2> QED BY <2>1 DEF StatusFrames, StatusFault
<1>2. /\ outbound = <<>>
      /\ outbound' = IF Due(charger) THEN <<s>> ELSE <<>>
  BY ChargerUpdateType, QueueFacts DEF ChargerUpdate, TypeOK
<1> HIDE DEF s
<1>3. /\ time' = time /\ lost' = lost /\ vcu' = vcu /\ motor' = motor
      /\ charger'.next = IF Due(charger) THEN time + ChargerPeriod ELSE charger.next
      /\ charger'.state = ChargerState
      /\ TrackPermission
  BY ChargerEffect DEF ChargerUpdate
<1>4. /\ ~StatusPending /\ ~EnablePending /\ ~EnablePending'
      /\ ~Queued(EnableOff, outbound')
      /\ StatusPending' <=> Due(charger)
  <2>1. EnableOff # s /\ ~EnableIn(<<s>>) /\ StatusIn(<<s>>)
    BY <1>1, SpecialFrames, EnableInShort, StatusInShort
  <2> QED BY <1>2, <2>1, StatusInShort, EnableInShort, QueuedShort DEF StatusPending, EnablePending
<1>5. Queued(StatusFault, outbound') => ~Permitted' \/ since' >= time'
  <2>1. Queued(StatusFault, outbound') => s = StatusFault
    BY <1>2, QueuedShort
  <2> QED BY <1>1, <1>3, <2>1 DEF Permitted
<1>6. ~lost' /\ vcu'.charger = "FAULT" => ~Permitted' \/ since' >= StatusHeard'
  <2>1. /\ StatusHeard \in Int /\ StatusHeard <= time' /\ time - Kept(ChargerPeriod) <= StatusHeard
        /\ Kept(ChargerPeriod) \in Nat
    BY <1>3, LongAgo
  <2>2. ~lost' /\ vcu'.charger = "FAULT" => ~Permitted' \/ since' >= StatusHeard
    BY <1>3, <2>1, Tracked DEF ResumesInv
  <2>3. StatusHeard' \in Int /\ StatusHeard' <= StatusHeard
    <3>1. CASE Due(charger)
      <4>1. StatusHeard' = time - Kept(ChargerPeriod)
        BY <1>3, <1>4, <3>1 DEF StatusHeard
      <4> QED BY <2>1, <4>1 DEF TypeOK
    <3>2. CASE ~Due(charger)
      <4>1. StatusHeard' = StatusHeard
        BY <1>3, <1>4, <3>2 DEF StatusHeard
      <4> QED BY <2>1, <4>1
    <3> QED BY <3>1, <3>2
  <2>4. since' \in Int
    BY ChargerUpdateType DEF TypeOK
  <2> QED BY <2>1, <2>2, <2>3, <2>4
<1>7. ~lost' /\ ~motor'.enabled => ~Permitted' \/ since' >= EnableHeard' - Kept(ChargerPeriod)
  <2>1. EnableHeard' = EnableHeard
    BY <1>3, <1>4 DEF EnableHeard
  <2>2. EnableHeard - Kept(ChargerPeriod) \in Int /\ EnableHeard - Kept(ChargerPeriod) <= time'
    BY <1>3, LongAgo
  <2> QED BY <1>3, <2>1, <2>2, Tracked DEF ResumesInv
<1>8. ~lost' /\ motor'.reported # "RUNNING" => ~Permitted' \/
        since' >= motor'.next - MotorPeriod - Kept(VcuPeriod) - Kept(ChargerPeriod)
  <2> DEFINE x == motor.next - MotorPeriod - Kept(VcuPeriod) - Kept(ChargerPeriod)
  <2>1. x \in Int /\ x <= time'
    BY <1>3, LongAgo
  <2>2. ~lost /\ motor.reported # "RUNNING" => ~Permitted \/ since >= x
    BY DEF ResumesInv
  <2>3. motor'.next - MotorPeriod - Kept(VcuPeriod) - Kept(ChargerPeriod) = x
    BY <1>3
  <2> HIDE DEF x
  <2> QED BY <1>3, <2>1, <2>2, <2>3, Tracked
<1>9. StatusPending' => charger'.next = time' + ChargerPeriod
  BY <1>3, <1>4
<1> QED BY <1>4, <1>5, <1>6, <1>7, <1>8, <1>9 DEF ResumesInv

LEMMA VcuUpdateResumes ==
  ASSUME TypeOK, Timers, ResumesInv, VcuUpdate
  PROVE  ResumesInv'
<1> DEFINE e == [id |-> "enable", on |-> Enable]
<1>1. e \in EnableFrames /\ (e = EnableOff => ~Enable)
  <2>1. Enable \in BOOLEAN
    BY DEF Enable
  <2> QED BY <2>1 DEF EnableFrames, EnableOff
<1>2. /\ ~Due(vcu) => outbound' = outbound
      /\ Due(vcu) => \/ outbound = <<>> /\ outbound' = <<e>>
                     \/ \E s \in StatusFrames : outbound = <<s>> /\ outbound' = <<s, e>>
  BY VcuUpdateType
<1> HIDE DEF e
<1>3. /\ time' = time /\ lost' = lost /\ since' = since /\ motor' = motor /\ pc = "vcu"
      /\ vcu' = IF Due(vcu) THEN [vcu EXCEPT !.next = time + VcuPeriod] ELSE vcu
      /\ charger' = charger
  BY VcuEffect
<1>4. Permitted' = Permitted /\ vcu'.charger = vcu.charger
  BY <1>3, PermittedSame DEF TypeOK, EcusOK
<1>5. ~EnablePending
  BY <1>3, QueueFacts, EnableInShort DEF TypeOK, EnablePending
<1>6. CASE Due(vcu)
  <2>1. vcu'.next = time + VcuPeriod
    BY <1>3, <1>6 DEF TypeOK, EcusOK
  <2>2. /\ EnablePending'
        /\ StatusPending' <=> StatusPending
        /\ Queued(StatusFault, outbound') => Queued(StatusFault, outbound)
        /\ Queued(EnableOff, outbound') => e = EnableOff
    <3>1. CASE outbound = <<>> /\ outbound' = <<e>>
      <4>1. EnableIn(<<e>>) /\ ~StatusIn(<<e>>) /\ ~StatusIn(<<>>) /\ StatusFault # e
        BY <1>1, EnableInShort, StatusInShort, SpecialFrames
      <4> QED BY <3>1, <4>1, QueuedShort DEF EnablePending, StatusPending
    <3>2. ASSUME NEW s \in StatusFrames, outbound = <<s>>, outbound' = <<s, e>>
          PROVE  /\ EnablePending'
                 /\ StatusPending' <=> StatusPending
                 /\ Queued(StatusFault, outbound') => Queued(StatusFault, outbound)
                 /\ Queued(EnableOff, outbound') => e = EnableOff
      <4>1. /\ EnableIn(<<s, e>>) /\ StatusIn(<<s, e>>) /\ StatusIn(<<s>>)
            /\ StatusFault # e /\ EnableOff # s
        BY <1>1, EnableInShort, StatusInShort, SpecialFrames
      <4> QED BY <3>2, <4>1, QueuedShort DEF EnablePending, StatusPending
    <3> QED BY <1>2, <1>6, <3>1, <3>2
  <2>3. StatusHeard' = StatusHeard /\ EnableHeard' = time - Kept(VcuPeriod)
    BY <1>3, <2>2 DEF StatusHeard, EnableHeard
  <2>4. /\ EnableHeard - Kept(ChargerPeriod) \in Int /\ Kept(ChargerPeriod) \in Nat
        /\ Kept(VcuPeriod) \in Nat /\ EnableHeard \in Int /\ StatusHeard \in Int
        /\ time - Kept(ChargerPeriod) <= StatusHeard /\ time - Kept(VcuPeriod) <= EnableHeard
        /\ since \in Int /\ time \in Nat
    BY <1>5, LongAgo, HeardInThePast DEF TypeOK
  <2>5. ~lost' /\ Queued(EnableOff, outbound') =>
          ~Permitted' \/ since' >= time' - Kept(ChargerPeriod)
    <3>1. ~Enable /\ Permitted => vcu.charger = "FAULT"
      BY DEF Enable, Permitted
    <3> QED BY <1>1, <1>3, <1>4, <2>2, <2>4, <3>1 DEF ResumesInv
  <2>6. ~lost' /\ ~motor'.enabled => ~Permitted' \/ since' >= EnableHeard' - Kept(ChargerPeriod)
    BY <1>3, <1>4, <2>3, <2>4 DEF ResumesInv
  <2> QED BY <1>3, <1>4, <2>1, <2>2, <2>3, <2>5, <2>6 DEF ResumesInv
<1>7. CASE ~Due(vcu)
  <2>1. outbound' = outbound /\ vcu' = vcu
    BY <1>2, <1>3, <1>7
  <2> QED BY <1>3, <1>4, <2>1 DEF ResumesInv, EnablePending, EnableHeard, StatusPending, StatusHeard
<1> QED BY <1>6, <1>7

LEMMA MotorUpdateResumes ==
  ASSUME TypeOK, Timers, ResumesInv, MotorUpdate
  PROVE  ResumesInv'
<1>1. /\ time' = time /\ lost' = lost /\ since' = since /\ outbound' = outbound
      /\ charger' = charger /\ vcu' = vcu /\ motor'.enabled = motor.enabled
      /\ motor'.next = IF Due(motor) THEN time + MotorPeriod ELSE motor.next
      /\ motor'.reported = IF Due(motor) THEN (IF motor.enabled THEN "RUNNING" ELSE "SAFE")
                           ELSE motor.reported
  BY MotorEffect
<1>2. /\ Permitted' = Permitted /\ EnableHeard' = EnableHeard /\ StatusHeard' = StatusHeard
      /\ (EnablePending' <=> EnablePending) /\ (StatusPending' <=> StatusPending)
  BY <1>1 DEF Permitted, Fresh, EnablePending, EnableHeard, StatusPending, StatusHeard
<1>3. /\ Kept(VcuPeriod) \in Nat /\ Kept(ChargerPeriod) \in Nat /\ time \in Nat
      /\ EnableHeard \in Int /\ since \in Int /\ time - Kept(VcuPeriod) <= EnableHeard
  BY LongAgo, HeardInThePast DEF TypeOK, EnableHeard
<1>4. ~lost' /\ motor'.reported # "RUNNING" => ~Permitted' \/
        since' >= motor'.next - MotorPeriod - Kept(VcuPeriod) - Kept(ChargerPeriod)
  <2>1. CASE Due(motor)
    <3>1. motor'.next - MotorPeriod = time
      BY <1>1, <1>3, <2>1, Constants
    <3>2. ~lost /\ ~motor.enabled => ~Permitted \/ since >= EnableHeard - Kept(ChargerPeriod)
      BY DEF ResumesInv
    <3>3. ~motor.enabled \/ motor'.reported = "RUNNING"
      BY <1>1, <2>1
    <3> QED BY <1>1, <1>2, <1>3, <3>1, <3>2, <3>3
  <2>2. CASE ~Due(motor)
    BY <1>1, <1>2, <2>2 DEF ResumesInv
  <2> QED BY <2>1, <2>2
<1> QED BY <1>1, <1>2, <1>4 DEF ResumesInv

LEMMA RouteResumes ==
  ASSUME TypeOK, Timers, ResumesInv, Route
  PROVE  ResumesInv'
<1> DEFINE h == Head(outbound)
<1>1. /\ Permitted' = Permitted /\ since' = since /\ time' = time /\ charger' = charger
      /\ vcu'.next = vcu.next /\ motor'.next = motor.next /\ motor'.reported = motor.reported
  BY RouteKeeps
<1>2. /\ outbound' = Tail(outbound)
      /\ lost => lost'
      /\ \/ lost' /\ vcu' = vcu /\ motor' = motor
         \/ h \in StatusFrames /\ vcu' = [vcu EXCEPT !.charger = h.state] /\ motor' = motor
         \/ h \in EnableFrames /\ vcu' = vcu /\ motor' = [motor EXCEPT !.enabled = h.on]
  BY RouteEffect
<1>3. \/ h \in StatusFrames /\ outbound = <<h>> /\ outbound' = <<>>
      \/ h \in EnableFrames /\ outbound = <<h>> /\ outbound' = <<>>
      \/ h \in StatusFrames /\ \E e \in EnableFrames : outbound = <<h, e>> /\ outbound' = <<e>>
  BY <1>2, RouteEffect, RouteQueue DEF TypeOK
<1>4. ~lost' /\ motor'.reported # "RUNNING" => ~Permitted' \/
        since' >= motor'.next - MotorPeriod - Kept(VcuPeriod) - Kept(ChargerPeriod)
  BY <1>1, <1>2 DEF ResumesInv, TypeOK
<1>5. ~lost' => ~lost
  BY <1>2 DEF TypeOK
<1> HIDE DEF h
<1>6. CASE h \in StatusFrames
  <2>1. h \notin EnableFrames
    BY <1>6, SpecialFrames
  <2>2. /\ EnablePending' <=> EnablePending
        /\ ~StatusPending' /\ StatusPending
        /\ ~Queued(StatusFault, outbound')
        /\ Queued(EnableOff, outbound') => Queued(EnableOff, outbound)
    <3>1. CASE outbound = <<h>> /\ outbound' = <<>>
      <4>1. /\ ~EnableIn(<<h>>) /\ ~EnableIn(<<>>) /\ ~Queued(EnableOff, <<>>)
            /\ ~Queued(StatusFault, <<>>) /\ StatusIn(<<h>>) /\ ~StatusIn(<<>>)
        BY <1>6, EnableInShort, StatusInShort, QueuedShort
      <4> QED BY <3>1, <4>1 DEF EnablePending, StatusPending
    <3>2. ASSUME NEW e \in EnableFrames, outbound = <<h, e>>, outbound' = <<e>>
          PROVE  /\ EnablePending' <=> EnablePending
                 /\ ~StatusPending' /\ StatusPending
                 /\ ~Queued(StatusFault, outbound')
                 /\ Queued(EnableOff, outbound') => Queued(EnableOff, outbound)
      <4>1. EnableIn(<<h, e>>) /\ EnableIn(<<e>>) /\ StatusIn(<<h, e>>) /\ ~StatusIn(<<e>>)
        BY <1>6, EnableInShort, StatusInShort
      <4>2. Queued(EnableOff, <<e>>) => Queued(EnableOff, <<h, e>>)
        BY QueuedShort
      <4>3. ~Queued(StatusFault, <<e>>)
        BY QueuedShort, SpecialFrames
      <4> QED BY <3>2, <4>1, <4>2, <4>3 DEF EnablePending, StatusPending
    <3> QED BY <1>3, <2>1, <3>1, <3>2
  <2>3. StatusHeard' = time /\ EnableHeard' = EnableHeard
    <3>1. charger.next = time + ChargerPeriod
      BY <2>2 DEF ResumesInv
    <3> QED BY <1>1, <2>2, <3>1, Constants DEF StatusHeard, EnableHeard, TypeOK
  <2>4. ~lost' => vcu' = [vcu EXCEPT !.charger = h.state] /\ motor' = motor
    BY <1>2, <2>1
  <2>5. ~lost' /\ vcu'.charger = "FAULT" => ~Permitted' \/ since' >= StatusHeard'
    <3>1. ~lost' /\ vcu'.charger = "FAULT" => h = StatusFault
      BY <1>6, <2>4, SpecialFrames DEF TypeOK, EcusOK
    <3>2. h = StatusFault => Queued(StatusFault, outbound)
      BY <1>3, QueuedShort
    <3> QED BY <1>1, <2>3, <3>1, <3>2 DEF ResumesInv
  <2>6. ~lost' /\ Queued(EnableOff, outbound') =>
          ~Permitted' \/ since' >= time' - Kept(ChargerPeriod)
    BY <1>1, <1>5, <2>2 DEF ResumesInv
  <2>7. ~lost' /\ ~motor'.enabled => ~Permitted' \/ since' >= EnableHeard' - Kept(ChargerPeriod)
    BY <1>1, <1>5, <2>3, <2>4 DEF ResumesInv
  <2> QED BY <1>1, <1>4, <2>2, <2>5, <2>6, <2>7 DEF ResumesInv
<1>7. CASE h \in EnableFrames
  <2>1. h \notin StatusFrames
    BY <1>7, SpecialFrames
  <2>2. outbound = <<h>> /\ outbound' = <<>>
    BY <1>3, <2>1
  <2>3. /\ EnablePending /\ ~EnablePending' /\ ~StatusPending /\ ~StatusPending'
        /\ ~Queued(EnableOff, outbound') /\ ~Queued(StatusFault, outbound')
    BY <1>7, <2>2, EnableInShort, StatusInShort, QueuedShort DEF EnablePending, StatusPending
  <2>4. vcu.next = time + VcuPeriod
    BY <2>3 DEF ResumesInv
  <2>5. EnableHeard' = time /\ StatusHeard' = StatusHeard
    BY <1>1, <2>3, <2>4, Constants DEF EnableHeard, StatusHeard, TypeOK
  <2>6. ~lost' => vcu' = vcu /\ motor' = [motor EXCEPT !.enabled = h.on]
    BY <1>2, <2>1
  <2>7. ~lost' /\ ~motor'.enabled => h = EnableOff
    BY <1>7, <2>6, SpecialFrames DEF TypeOK, EcusOK
  <2>8. h = EnableOff => Queued(EnableOff, outbound)
    BY <2>2, QueuedShort
  <2>9. ~lost' /\ ~motor'.enabled => ~Permitted' \/ since' >= EnableHeard' - Kept(ChargerPeriod)
    BY <1>1, <1>5, <2>5, <2>7, <2>8 DEF ResumesInv
  <2>10. ~lost' /\ vcu'.charger = "FAULT" => ~Permitted' \/ since' >= StatusHeard'
    <3>1. vcu'.charger = vcu.charger
      BY <1>2, <2>1
    <3> QED BY <1>1, <1>5, <2>5, <2>6 DEF ResumesInv
  <2> QED BY <1>1, <1>4, <2>3, <2>9, <2>10 DEF ResumesInv
<1> QED BY <1>3, <1>6, <1>7

LEMMA StepResumes ==
  ASSUME TypeOK, Timers, ResumesInv, [Next]_vars
  PROVE  ResumesInv'
<1>1. ASSUME NEW f \in Stimuli, Stimulus(f) PROVE ResumesInv'
  <2>1. TrackPermission
    BY <1>1 DEF Stimulus
  <2> QED BY <1>1, <2>1, StimulusEffect, ResumesKept DEF TypeOK
<1>2. CASE StartTick
  BY <1>2 DEF StartTick, ResumesInv, EnablePending, EnableHeard, StatusPending, StatusHeard,
              Permitted, Fresh
<1>3. CASE ChargerUpdate
  BY <1>3, ChargerUpdateResumes
<1>4. CASE VcuUpdate
  BY <1>4, VcuUpdateResumes
<1>5. CASE MotorUpdate
  BY <1>5, MotorUpdateResumes
<1>6. CASE Route
  BY <1>6, RouteResumes
<1>7. CASE EndTick
  <2>1. /\ outbound = <<>> /\ outbound' = outbound /\ TrackPermission
        /\ charger' = charger /\ vcu' = vcu /\ motor' = motor /\ lost' = lost
    BY <1>7 DEF EndTick
  <2>2. time' \in Nat /\ time' >= time
    BY <1>7, Constants DEF EndTick, TypeOK
  <2> QED BY <2>1, <2>2, ResumesKept
<1>8. CASE UNCHANGED vars
  BY <1>8 DEF vars, ResumesInv, EnablePending, EnableHeard, StatusPending, StatusHeard,
              Permitted, Fresh
<1> QED BY <1>1, <1>2, <1>3, <1>4, <1>5, <1>6, <1>7, <1>8 DEF Next

\* The motor runs at the latest one period of each ECU and a step after driving
\* is permitted, when it stays so and no frame is dropped: no fault is held on
\* to, by the charger, by the VCU or by the motor.
THEOREM MotorResumes == Spec => []MotorResumesInTime
<1> DEFINE IInv == TypeOK /\ Timers /\ ResumesInv
<1>1. Init => IInv
  <2>1. Init => ResumesInv
    <3> SUFFICES ASSUME Init PROVE ResumesInv
      OBVIOUS
    <3>1. outbound = <<>> /\ vcu.battery = None
      BY DEF Init
    <3>2. ~Permitted
      BY <3>1, PowertrainAssumption DEF Permitted
    <3> QED BY <3>1, <3>2, EnableInShort, StatusInShort, QueuedShort
            DEF ResumesInv, EnablePending, StatusPending
  <2> QED BY <2>1, InitType, InitTimers
<1>2. IInv /\ [Next]_vars => IInv'
  BY StepType, StepTimers, StepResumes
<1>3. IInv => MotorResumesInTime
  <2> SUFFICES ASSUME IInv, ~lost, Permitted, motor.reported # "RUNNING",
                      time - since >= Kept(ChargerPeriod) + Kept(VcuPeriod) + Kept(MotorPeriod)
                                        + StepUs
               PROVE  FALSE
    BY DEF MotorResumesInTime
  <2>1. since >= motor.next - MotorPeriod - Kept(VcuPeriod) - Kept(ChargerPeriod)
    BY DEF ResumesInv
  <2>2. time <= motor.next - MotorPeriod + Kept(MotorPeriod)
    BY DEF Timers, Timer
  <2> QED BY <2>1, <2>2, KeptBound, Constants DEF TypeOK, EcusOK
<1> QED BY <1>1, <1>2, <1>3, PTL DEF Spec

=============================================================================
