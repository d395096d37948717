-------------------------- MODULE CanOpenNodeProofs --------------------------
(***************************************************************************)
(* The CANopen node, for all periods and steps and any sequence of frames: *)
(* the valve's law in OPERATIONAL, and the time within which the two frames*)
(* carry what the node has decided.                                        *)
(***************************************************************************)
EXTENDS CanOpenNode, TLAPS

NodeOK ==
  node \in [state : States, temperature : Temperatures, open : BOOLEAN,
            nextTpdo : Nat, nextHb : Nat]

Law == node.state = "OPERATIONAL" => (node.open <=> InBand(node.temperature))

\* What an NMT frame and an RPDO1 leave of the node: a state, a temperature and
\* a valve, by the law if the node is then OPERATIONAL.
LEMMA HeardNode ==
  ASSUME NodeOK, Law, NEW new, \/ \E command \in Commands : new = Nmt(command)
                               \/ \E temperature \in Temperatures : new = Rpdo(temperature)
  PROVE  /\ new \in [state : States, temperature : Temperatures, open : BOOLEAN,
                     nextTpdo : Nat, nextHb : Nat]
         /\ new.nextTpdo = node.nextTpdo /\ new.nextHb = node.nextHb
         /\ new.state = "OPERATIONAL" => (new.open <=> InBand(new.temperature))
<1> DEFINE Good(n) == /\ n \in [state : States, temperature : Temperatures, open : BOOLEAN,
                               nextTpdo : Nat, nextHb : Nat]
                      /\ n.nextTpdo = node.nextTpdo /\ n.nextHb = node.nextHb
                      /\ n.state = "OPERATIONAL" => (n.open <=> InBand(n.temperature))
<1>1. \A t : InBand(t) \in BOOLEAN
  BY DEF InBand
<1>2. ASSUME NEW command \in Commands PROVE Good(Nmt(command))
  <2>1. CASE command = "START"
    <3> DEFINE n == [node EXCEPT !.state = "OPERATIONAL"]
    <3>1. n = [state |-> "OPERATIONAL", temperature |-> node.temperature, open |-> node.open,
               nextTpdo |-> node.nextTpdo, nextHb |-> node.nextHb]
      BY DEF NodeOK
    <3>2. Nmt(command) = [n EXCEPT !.open = InBand(node.temperature)]
      BY <2>1, Zenon DEF Nmt
    <3> HIDE DEF n
    <3> QED BY <1>1, <3>1, <3>2 DEF NodeOK, States
  <2>2. CASE command = "STOP"
    BY <2>2 DEF Nmt, NodeOK, States
  <2>3. CASE command = "PRE_OPERATIONAL"
    BY <2>3 DEF Nmt, NodeOK, States
  <2>4. CASE command = "ignored"
    BY <2>4 DEF Nmt, NodeOK, Law
  <2> QED BY <2>1, <2>2, <2>3, <2>4 DEF Commands
<1>3. ASSUME NEW temperature \in Temperatures PROVE Good(Rpdo(temperature))
  <2> DEFINE n == [node EXCEPT !.temperature = temperature]
  <2>1. n = [state |-> node.state, temperature |-> temperature, open |-> node.open,
             nextTpdo |-> node.nextTpdo, nextHb |-> node.nextHb]
    BY DEF NodeOK
  <2>2. Rpdo(temperature) = IF node.state = "OPERATIONAL"
                            THEN [n EXCEPT !.open = InBand(temperature)] ELSE n
    BY Zenon DEF Rpdo
  <2> HIDE DEF n
  <2> QED BY <1>1, <2>1, <2>2 DEF NodeOK
<1> QED BY <1>2, <1>3

\* A frame with a timer: since `next - period` the bus carries the value, or is
\* about to, unless the value has changed since.
Carried(t, phase, next, period, frame, seen, value, changed) ==
  /\ changed \in Int
  /\ next \in Nat /\ next <= t + period
  /\ phase = "idle" => /\ t < next + StepUs
                       /\ frame = {}
                       /\ seen = value \/ changed >= next - period
  /\ phase = "route" => /\ t < next
                        /\ \/ frame = {} /\ (seen = value \/ changed >= next - period)
                           \/ \E v : frame = {v} /\ (v = value \/ changed >= next - period)

LEMMA CarriedInit ==
  ASSUME StepUs \in Nat \ {0}, NEW p \in Nat \ {0}, NEW v
  PROVE  Carried(0, "idle", 0, p, {}, v, v, 0)
BY DEF Carried

LEMMA CarriedHears ==
  ASSUME NEW t \in Nat, NEW phase, NEW next, NEW p \in Nat \ {0}, NEW frame, NEW seen, NEW value,
         NEW changed, NEW new, Carried(t, phase, next, p, frame, seen, value, changed)
  PROVE  Carried(t, phase, next, p, frame, seen, new, IF new = value THEN changed ELSE t)
<1>1. CASE new = value
  BY <1>1
<1>2. CASE new # value
  <2>1. t >= next - p /\ t \in Int
    BY DEF Carried
  <2> QED BY <1>2, <2>1 DEF Carried
<1> QED BY <1>1, <1>2

LEMMA CarriedUpdate ==
  ASSUME NEW t \in Nat, NEW next, NEW p \in Nat \ {0}, NEW frame, NEW seen, NEW value, NEW changed,
         NEW later, NEW sent, Carried(t, "idle", next, p, frame, seen, value, changed),
         later = IF t >= next THEN t + p ELSE next, sent = IF t >= next THEN {value} ELSE {}
  PROVE  Carried(t, "route", later, p, sent, seen, value, changed)
BY DEF Carried

LEMMA CarriedEnds ==
  ASSUME StepUs \in Nat \ {0}, NEW t \in Nat, NEW next, NEW p \in Nat \ {0}, NEW frame, NEW seen,
         NEW value, NEW changed, Carried(t, "route", next, p, frame, seen, value, changed)
  PROVE  Carried(t + StepUs, "idle", next, p, {},
                 IF frame = {} THEN seen ELSE CHOOSE v \in frame : TRUE, value, changed)
<1>1. /\ changed \in Int /\ next \in Nat
      /\ next <= (t + StepUs) + p /\ t + StepUs < next + StepUs
  BY DEF Carried
<1>2. CASE frame = {}
  BY <1>1, <1>2 DEF Carried
<1>3. ASSUME NEW v, frame = {v}, v = value \/ changed >= next - p
      PROVE  Carried(t + StepUs, "idle", next, p, {},
                     IF frame = {} THEN seen ELSE CHOOSE x \in frame : TRUE, value, changed)
  <2>1. (CHOOSE x \in {v} : TRUE) = v /\ frame # {}
    BY <1>3
  <2> QED BY <1>1, <1>3, <2>1 DEF Carried
<1> QED BY <1>2, <1>3 DEF Carried

TpdoCarried ==
  Carried(time, pc, node.nextTpdo, TpdoPeriod, pushed.valve, bus.valve, node.open, since.valve)
HbCarried ==
  Carried(time, pc, node.nextHb, HbPeriod, pushed.state, bus.state, node.state, since.state)

IInv ==
  /\ time \in Nat
  /\ pc \in {"idle", "route"}
  /\ NodeOK
  /\ Law
  /\ TpdoCarried
  /\ HbCarried

LEMMA InitInv ==
  ASSUME StepUs \in Nat \ {0}, TpdoPeriod \in Nat \ {0}, HbPeriod \in Nat \ {0}, Init
  PROVE  IInv
<1>1. /\ time = 0 /\ pc = "idle"
      /\ node = [state |-> "PRE_OPERATIONAL", temperature |-> "out", open |-> FALSE,
                 nextTpdo |-> 0, nextHb |-> 0]
      /\ pushed.valve = {} /\ pushed.state = {}
      /\ bus.valve = FALSE /\ bus.state = "PRE_OPERATIONAL"
      /\ since.valve = 0 /\ since.state = 0
  BY DEF Init, NothingPushed
<1>2. NodeOK
  BY <1>1 DEF NodeOK, States, Temperatures
<1>3. Law
  BY <1>1 DEF Law
<1>4. TpdoCarried
  BY <1>1, CarriedInit DEF TpdoCarried
<1>5. HbCarried
  BY <1>1, CarriedInit DEF HbCarried
<1> QED BY <1>1, <1>2, <1>3, <1>4, <1>5 DEF IInv

LEMMA HearsInv ==
  ASSUME TpdoPeriod \in Nat \ {0}, HbPeriod \in Nat \ {0}, IInv, NEW new, Hears(new), \/ \E command \in Commands : new = Nmt(command)
                                    \/ \E temperature \in Temperatures : new = Rpdo(temperature)
  PROVE  IInv'
<1>1. /\ NodeOK' /\ Law'
      /\ node'.nextTpdo = node.nextTpdo /\ node'.nextHb = node.nextHb
  BY HeardNode DEF IInv, NodeOK, Law, Hears, InBand
<1>2. /\ node' = new /\ time' = time /\ pc' = pc /\ pushed' = pushed /\ bus' = bus
      /\ since'.valve = IF node'.open = node.open THEN since.valve ELSE time
      /\ since'.state = IF node'.state = node.state THEN since.state ELSE time
  BY DEF Hears
<1>3. TpdoCarried'
  BY <1>1, <1>2, CarriedHears DEF IInv, TpdoCarried
<1>4. HbCarried'
  BY <1>1, <1>2, CarriedHears DEF IInv, HbCarried
<1> QED BY <1>1, <1>2, <1>3, <1>4 DEF IInv

LEMMA UpdateInv ==
  ASSUME StepUs \in Nat \ {0}, TpdoPeriod \in Nat \ {0}, HbPeriod \in Nat \ {0}, IInv, Update
  PROVE  IInv'
<1> DEFINE n == [node EXCEPT !.nextTpdo = IF time >= node.nextTpdo THEN time + TpdoPeriod
                                          ELSE node.nextTpdo]
<1>1. n = [state |-> node.state, temperature |-> node.temperature, open |-> node.open,
           nextTpdo |-> IF time >= node.nextTpdo THEN time + TpdoPeriod ELSE node.nextTpdo,
           nextHb |-> node.nextHb]
  BY DEF IInv, NodeOK
<1>2. node' = [n EXCEPT !.nextHb = IF time >= node.nextHb THEN time + HbPeriod ELSE node.nextHb]
  BY Zenon DEF Update
<1> HIDE DEF n
<1>3. node' = [state |-> node.state, temperature |-> node.temperature, open |-> node.open,
               nextTpdo |-> IF time >= node.nextTpdo THEN time + TpdoPeriod ELSE node.nextTpdo,
               nextHb |-> IF time >= node.nextHb THEN time + HbPeriod ELSE node.nextHb]
  BY <1>1, <1>2
<1>4. /\ time' = time /\ pc = "idle" /\ pc' = "route" /\ bus' = bus /\ since' = since
      /\ pushed'.valve = IF time >= node.nextTpdo THEN {node.open} ELSE {}
      /\ pushed'.state = IF time >= node.nextHb THEN {node.state} ELSE {}
  BY DEF Update
<1>5. NodeOK' /\ Law'
  BY <1>3 DEF IInv, NodeOK, Law, InBand
<1>6. /\ node'.open = node.open /\ node'.state = node.state
      /\ node'.nextTpdo = IF time >= node.nextTpdo THEN time + TpdoPeriod ELSE node.nextTpdo
      /\ node'.nextHb = IF time >= node.nextHb THEN time + HbPeriod ELSE node.nextHb
  BY <1>3
<1>7. TpdoCarried'
  <2>1. Carried(time, "route", node'.nextTpdo, TpdoPeriod, pushed'.valve, bus.valve, node.open,
                since.valve)
    BY <1>4, <1>6, CarriedUpdate DEF IInv, TpdoCarried
  <2> QED BY <1>4, <1>6, <2>1 DEF TpdoCarried
<1>8. HbCarried'
  <2>1. Carried(time, "route", node'.nextHb, HbPeriod, pushed'.state, bus.state, node.state,
                since.state)
    BY <1>4, <1>6, CarriedUpdate DEF IInv, HbCarried
  <2> QED BY <1>4, <1>6, <2>1 DEF HbCarried
<1> QED BY <1>4, <1>5, <1>7, <1>8 DEF IInv

LEMMA EndTickInv ==
  ASSUME StepUs \in Nat \ {0}, TpdoPeriod \in Nat \ {0}, HbPeriod \in Nat \ {0}, IInv, EndTick
  PROVE  IInv'
<1>1. /\ time' = time + StepUs /\ pc = "route" /\ pc' = "idle"
      /\ node' = node /\ since' = since
      /\ pushed'.valve = {} /\ pushed'.state = {}
      /\ bus'.valve = IF pushed.valve = {} THEN bus.valve ELSE CHOOSE v \in pushed.valve : TRUE
      /\ bus'.state = IF pushed.state = {} THEN bus.state ELSE CHOOSE v \in pushed.state : TRUE
  BY DEF EndTick, NothingPushed
<1>3. NodeOK' /\ Law'
  BY <1>1 DEF IInv, NodeOK, Law, InBand
<1>4. TpdoCarried'
  BY <1>1, CarriedEnds DEF IInv, TpdoCarried
<1>5. HbCarried'
  BY <1>1, CarriedEnds DEF IInv, HbCarried
<1> QED BY <1>1, <1>3, <1>4, <1>5 DEF IInv

LEMMA StepInv ==
  ASSUME StepUs \in Nat \ {0}, TpdoPeriod \in Nat \ {0}, HbPeriod \in Nat \ {0}, IInv, [Next]_vars
  PROVE  IInv'
<1>1. CASE NmtFrame
  BY <1>1, HearsInv DEF NmtFrame
<1>2. CASE RpdoFrame
  BY <1>2, HearsInv DEF RpdoFrame
<1>3. CASE Update
  BY <1>3, UpdateInv
<1>4. CASE EndTick
  BY <1>4, EndTickInv
<1>5. CASE UNCHANGED vars
  BY <1>5 DEF vars, IInv, NodeOK, Law, InBand, TpdoCarried, HbCarried, Carried
<1> QED BY <1>1, <1>2, <1>3, <1>4, <1>5 DEF Next

\* The engine never shortens a period.
LEMMA KeptIsLonger ==
  ASSUME StepUs \in Nat \ {0}, NEW p \in Nat \ {0}
  PROVE  Kept(p) \in Nat /\ p <= Kept(p)
<1> DEFINE q == (p + StepUs - 1) \div StepUs
<1>1. /\ p + StepUs - 1 \in Nat
      /\ q \in Nat
      /\ p + StepUs - 1 < StepUs * q + StepUs
  OBVIOUS
<1> HIDE DEF q
<1>2. StepUs * q \in Nat
  BY <1>1
<1> QED BY <1>1, <1>2 DEF Kept, q

LEMMA LawHolds ==
  ASSUME IInv
  PROVE  OperationalLaw
BY DEF IInv, Law, OperationalLaw

LEMMA CarriedInTime ==
  ASSUME StepUs \in Nat \ {0}, TpdoPeriod \in Nat \ {0}, HbPeriod \in Nat \ {0}, IInv
  PROVE  Reported
<1> SUFFICES ASSUME pc = "idle"
             PROVE  /\ time - since.valve >= Kept(TpdoPeriod) + StepUs => bus.valve = node.open
                    /\ time - since.state >= Kept(HbPeriod) + StepUs => bus.state = node.state
  BY DEF Reported
<1>1. time - since.valve >= Kept(TpdoPeriod) + StepUs => bus.valve = node.open
  BY KeptIsLonger DEF IInv, TpdoCarried, Carried
<1>2. time - since.state >= Kept(HbPeriod) + StepUs => bus.state = node.state
  BY KeptIsLonger DEF IInv, HbCarried, Carried
<1> QED BY <1>1, <1>2

-----------------------------------------------------------------------------

\* In OPERATIONAL the valve obeys the newest temperature, whichever frames came
\* in while the node was stopped or pre-operational.
THEOREM ValveLaw ==
  ASSUME StepUs \in Nat \ {0}, TpdoPeriod \in Nat \ {0}, HbPeriod \in Nat \ {0}
  PROVE  Spec => []OperationalLaw
<1>1. Init => IInv
  BY InitInv
<1>2. IInv /\ [Next]_vars => IInv'
  BY StepInv
<1>3. IInv => OperationalLaw
  BY LawHolds
<1> QED BY <1>1, <1>2, <1>3, PTL DEF Spec

\* A decision of the valve, and a state, that stand are on the bus within their
\* frame's period and a step.
THEOREM ReportedInTime ==
  ASSUME StepUs \in Nat \ {0}, TpdoPeriod \in Nat \ {0}, HbPeriod \in Nat \ {0}
  PROVE  Spec => []Reported
<1>1. Init => IInv
  BY InitInv
<1>2. IInv /\ [Next]_vars => IInv'
  BY StepInv
<1>3. IInv => Reported
  BY CarriedInTime
<1> QED BY <1>1, <1>2, <1>3, PTL DEF Spec
=============================================================================
