---------------------------- MODULE ConfigVehicle ----------------------------
(***************************************************************************)
(* From a DBC file and a vehicle.yaml to frames on the bus: the file is    *)
(* parsed (DbcParser), the ECUs of the configuration are built one after   *)
(* another against its messages (crates/embrig-models/src/lib.rs), and the *)
(* config nodes among them transmit, with the signals a test sets          *)
(* (ConfigEcu, crates/embrig-models/src/config.rs), through the DBC codec. *)
(*                                                                         *)
(* The reference ECUs and firmware are built and subscribed here; what     *)
(* they do is in Powertrain and CanOpenNode.                               *)
(***************************************************************************)
EXTENDS DbcParser, DbcCodec

CONSTANTS
  Vehicles,   (* configurations: sequences of ECU entries                  *)
  Registered, (* names firmware is registered for                          *)
  Requests,   (* set_signal calls: [ecu, id, signal, value]                *)
  StepUs,     (* step_us                                                   *)
  MaxTime     (* bound on the clock                                        *)

ASSUME ConfigVehicleAssumption == StepUs \in Nat \ {0} /\ MaxTime \in Nat

VARIABLES
  config,  (* VehicleConfig::ecus                                          *)
  ecus,    (* what is built of it: [name, hears, node]                     *)
  values,  (* ConfigEcu::values of each ECU                                *)
  next,    (* ConfigEcu::next                                              *)
  time,    (* of the simulation                                            *)
  frames,  (* frames of the last tick, a set of [ecu, data]                *)
  sentAt   (* for the properties: when each ECU sent last, -1 for never    *)

nodeVars == <<config, ecus, values, next, time, frames, sentAt>>
vars == <<parserVars, nodeVars>>

-----------------------------------------------------------------------------
(* Building.                                                               *)

Battery == 256
Brake == 272
Driver == 288
ChargeRequest == 512
ChargeStatus == 528
MotorEnable == 544
MotorStatus == 560

\* The messages a reference ECU is built with, and those it is subscribed to.
Needs(kind) ==
  CASE kind = "charger" -> {ChargeRequest, Battery, ChargeStatus}
    [] kind = "vcu" -> {Battery, Brake, Driver, ChargeStatus, MotorEnable}
    [] kind = "motor" -> {MotorEnable, MotorStatus}
    [] OTHER -> {}

Hears(ecu) ==
  CASE ecu.kind = "charger" -> <<ChargeRequest, Battery>>
    [] ecu.kind = "vcu" -> <<Battery, Brake, Driver, ChargeStatus>>
    [] ecu.kind = "motor" -> <<MotorEnable>>
    [] OTHER -> ecu.listen

\* message_by_name looks in the order of the ids.
MessageByName(name) ==
  LET ids == {id \in DOMAIN network : network[id].name = name}
  IN  IF ids = {} THEN NoMessage ELSE network[CHOOSE id \in ids : \A j \in ids : id <= j]

\* literal_to_physical: a number (a boolean is one) or a symbol.
Physical(message, name, literal) ==
  IF "symbol" \in DOMAIN literal
  THEN PhysicalForSymbol(message, name, literal.symbol)
  ELSE Done(literal.num)

Encodable(message, name, literal) ==
  LET v == Physical(message, name, literal)
  IN  v.result = "ok" /\ CheckValue(message, name, v.value)

\* Every check that ends the build with an error.
Buildable(ecu) ==
  CASE ecu.kind = "config" ->
         LET m == MessageByName(ecu.message)
         IN  /\ m # NoMessage
             /\ \A s \in DOMAIN ecu.signals : Encodable(m, s, ecu.signals[s])
    [] ecu.kind = "sil" -> ecu.name \in Registered
    [] OTHER -> Needs(ecu.kind) \subseteq DOMAIN network

StartBuild ==
  /\ pc = "parse"
  /\ line > Len(file)
  /\ pc' = "build"
  /\ UNCHANGED <<file, line, current, network, nodeVars>>

BuildEcu ==
  /\ pc = "build"
  /\ Len(ecus) < Len(config)
  /\ LET ecu == config[Len(ecus) + 1]
         m == IF ecu.kind = "config" THEN MessageByName(ecu.message) ELSE NoMessage
     IN  /\ Buildable(ecu)
         /\ ecus' = Append(ecus, [name |-> ecu.name, hears |-> Hears(ecu), message |-> m,
                                  period |-> ecu.period])
         /\ values' = Append(values, [s \in DOMAIN ecu.signals |->
                                        Physical(m, s, ecu.signals[s]).value])
  /\ next' = Append(next, 0)
  /\ sentAt' = Append(sentAt, -1)
  /\ UNCHANGED <<parserVars, config, time, frames>>

BuildFails ==
  /\ pc = "build"
  /\ Len(ecus) < Len(config)
  /\ ~Buildable(config[Len(ecus) + 1])
  /\ pc' = "failed"
  /\ UNCHANGED <<file, line, current, network, nodeVars>>

Built ==
  /\ pc = "build"
  /\ Len(ecus) = Len(config)
  /\ pc' = "running"
  /\ UNCHANGED <<file, line, current, network, nodeVars>>

-----------------------------------------------------------------------------
(* Running.                                                                *)

IsConfig(i) == ecus[i].message # NoMessage

\* ConfigEcu::update gets as far as the encoder.
Due(i) == IsConfig(i) /\ time >= next[i]
Encoded(i) == EncodeSignals(ecus[i].message, values[i])

\* A frame goes out when the data is there and no longer than CanFrame::new takes.
Transmits(i) == Due(i) /\ Encoded(i).result = "ok" /\ Len(Encoded(i).value) <= 8

\* Mutant: the next transmission is counted from the one that was due.
TickDrifts ==
  /\ pc = "running"
  /\ time + StepUs <= MaxTime
  /\ \A i \in DOMAIN ecus : Due(i) => Encoded(i).result # "panic"
  /\ time' = time + StepUs
  /\ next' = [i \in DOMAIN ecus |-> IF Due(i) THEN next[i] + ecus[i].period ELSE next[i]]
  /\ frames' = {[ecu |-> i, data |-> Encoded(i).value] : i \in {j \in DOMAIN ecus : Transmits(j)}}
  /\ sentAt' = [i \in DOMAIN ecus |-> IF Transmits(i) THEN time ELSE sentAt[i]]
  /\ UNCHANGED <<parserVars, config, ecus, values>>

\* One step of the simulation: every node's update.
Tick ==
  /\ pc = "running"
  /\ time + StepUs <= MaxTime
  /\ \A i \in DOMAIN ecus : Due(i) => Encoded(i).result # "panic"
  /\ time' = time + StepUs
  /\ next' = [i \in DOMAIN ecus |-> IF Due(i) THEN time + ecus[i].period ELSE next[i]]
  /\ frames' = {[ecu |-> i, data |-> Encoded(i).value] : i \in {j \in DOMAIN ecus : Transmits(j)}}
  /\ sentAt' = [i \in DOMAIN ecus |-> IF Transmits(i) THEN time ELSE sentAt[i]]
  /\ UNCHANGED <<parserVars, config, ecus, values>>

\* The encoder indexes the data out of bounds.
TickPanics ==
  /\ pc = "running"
  /\ \E i \in DOMAIN ecus : Due(i) /\ Encoded(i).result = "panic"
  /\ pc' = "panicked"
  /\ UNCHANGED <<file, line, current, network, nodeVars>>

\* Of ECUs with one name the target's map holds the last.
IndexOf(name) ==
  LET found == {i \in DOMAIN ecus : ecus[i].name = name}
  IN  IF found = {} THEN 0 ELSE CHOOSE i \in found : \A j \in found : j <= i

\* A target with firmware refuses the firmware's names.
Accepted(request) ==
  LET i == IndexOf(request.ecu)
  IN  /\ ~ \E e \in Range(config) : e.kind = "sil" /\ e.name = request.ecu
      /\ i # 0
      /\ IsConfig(i)
      /\ request.id = ecus[i].message.id
      /\ Encodable(ecus[i].message, request.signal, request.value)

\* A call that is not accepted is an error of the test step and changes nothing.
SetSignal(request) ==
  /\ pc = "running"
  /\ Accepted(request)
  /\ LET i == IndexOf(request.ecu)
         v == Physical(ecus[i].message, request.signal, request.value).value
     IN  values' = [values EXCEPT ![i] = Put(@, request.signal, v)]
  /\ UNCHANGED <<parserVars, config, ecus, next, time, frames, sentAt>>

-----------------------------------------------------------------------------

InitNodes ==
  /\ config \in Vehicles
  /\ ecus = <<>> /\ values = <<>> /\ next = <<>> /\ frames = {} /\ sentAt = <<>>
  /\ time = 0

Init == InitParser /\ InitNodes

Parse == ParseLine /\ UNCHANGED nodeVars
Build == StartBuild \/ BuildEcu \/ BuildFails \/ Built

Next == Parse \/ Build \/ Tick \/ TickPanics \/ (\E r \in Requests : SetSignal(r))

Spec == Init /\ [][Next]_vars

-----------------------------------------------------------------------------
(* Properties.                                                             *)

Abs(x) == IF x < 0 THEN -x ELSE x

\* The two byte orders, as a receiver reads them.  Intel: bit i of the value is
\* i bits behind the start bit.  Motorola: from bit 7 of each byte down and on to
\* the next byte the value's bits are consecutive, the highest at the start bit.
BitAt(data, signal, i) ==
  IF signal.order = "intel"
  THEN (signal.start + i) % 8 \in data[(signal.start + i) \div 8 + 1]
  ELSE LET at == 8 * (signal.start \div 8) + 7 - (signal.start % 8) + signal.length - 1 - i
       IN  7 - (at % 8) \in data[at \div 8 + 1]

Received(data, signal) ==
  LET raw == FromBits({i \in 0 .. signal.length - 1 : BitAt(data, signal, i)})
      top == Power[signal.length - 1]
  IN  signal.factor * (IF signal.signed /\ raw >= top THEN raw - 2 * top ELSE raw)
        + signal.offset

\* A message whose signals lie in its data, in different bits, under different
\* names; nothing in the parser sees to that.
Sound(message) ==
  LET bits(s) == Range(Positions(s))
  IN  /\ message.dlc <= 8
      /\ \A i, j \in DOMAIN message.signals :
           LET s == message.signals[i]
               t == message.signals[j]
           IN  /\ \A b \in bits(s) : b[1] < (IF message.dlc = 0 THEN 1 ELSE message.dlc)
               /\ i # j => s.name # t.name /\ bits(s) \cap bits(t) = {}

\* What a receiver reads off the wire, and what the codec decodes, is within half
\* a resolution step of the value that was set last, for every signal of the
\* frame, and the offset for a signal that has never been set: rounding, sign and
\* the two byte orders in one message do not disturb one another.
Shows(f) ==
  LET m == ecus[f.ecu].message
  IN  Sound(m) =>
        \A s \in Range(m.signals) :
          LET d == DecodeSignal(m, f.data, s.name)
          IN  /\ d = Done(Received(f.data, s))
              /\ IF s.name \in DOMAIN values[f.ecu]
                 THEN 2 * Abs(d.value - values[f.ecu][s.name]) <= Abs(s.factor)
                 ELSE d.value = s.offset
FramesShowValues == [][time' # time => \A f \in frames' : Shows(f)']_vars

\* A node transmits in the first tick and then in every tick that is a period
\* behind its last frame, and in no other, whatever a test sets meanwhile: no
\* value that was accepted, at the start or later, can mute it.
SendsWhenDue ==
  [][time' # time =>
       \A i \in DOMAIN ecus : IsConfig(i) /\ Sound(ecus[i].message) =>
         ((\E f \in frames' : f.ecu = i)
            <=> (sentAt[i] = -1 \/ time - sentAt[i] >= ecus[i].period))]_vars

\* What CodecError::SignalOutOfBounds is for (codec.rs:10): a signal that does
\* not fit in the data is an error, which the node answers by not transmitting.
OutOfBoundsIsAnError == pc # "panicked"
=============================================================================
