----------------------------- MODULE EthVehicle -----------------------------
(***************************************************************************)
(* The Ethernet network as a test sees it: the config nodes of the vehicle *)
(* (UdpConfigEcu, crates/embrig-net/src/ecu.rs; TcpConfigEcu, tcp.rs) send *)
(* their netmap message with the fields a test sets, the network applies   *)
(* the faults a test adds, and the recorder keeps the newest message of    *)
(* each endpoint, which is what a poll returns.                            *)
(*                                                                         *)
(* There are three ways to it: UdpTarget ("udp") and UdpSutTarget ("sut"), *)
(* crates/embrig-test/src/udp.rs, build the nodes from vehicle.yaml and    *)
(* the netmap; a program connects them to a TcpSim itself ("tcp").         *)
(* Firmware keeps silent here.                                             *)
(***************************************************************************)
EXTENDS NetmapCodec

CONSTANTS
  Stacks,     (* which of "udp", "sut" and "tcp" are checked               *)
  Netmap,     (* the messages by name                                      *)
  EthEcus,    (* configurations: sequences of Ethernet ECU entries         *)
  Firmware,   (* names firmware is registered for                          *)
  Fields,     (* set_field calls: [ecu, message, field, value]             *)
  Faults,     (* fault rules: [dst, action, start, duration], a relative   *)
              (* start, and delay or byte and mask                         *)
  Datagrams,  (* what the test injects: [dst, payload]                     *)
  StepUs,     (* step_us                                                   *)
  MaxTime,    (* bound on the clock                                        *)
  MaxCalls    (* bound on set_field, add_fault, inject and reset together  *)

VARIABLES
  pc,         (* "build", "running" or "failed"                            *)
  stack,      (* the way taken                                             *)
  config,     (* VehicleConfig::eth_ecus                                   *)
  ecus,       (* what is built of it: [name, message, period]              *)
  base,       (* UdpConfigEcu::base of each ECU                            *)
  overrides,  (* UdpConfigEcu::overrides                                   *)
  next,       (* UdpConfigEcu::next                                        *)
  time,       (* of the simulation                                         *)
  rules,      (* NetworkSim::faults                                        *)
  held,       (* NetworkSim::delayed: a set of [at, born, message]         *)
  latest,     (* last_datagram, last_segment: by endpoint                  *)
  calls,      (* how many bounded calls were made                          *)
  steadyFrom  (* for the properties: when last anything disturbed what an  *)
              (* ECU sends, or its endpoint                                *)

nodes == <<ecus, base, overrides, next>>
network == <<time, rules, held, latest>>
vars == <<pc, stack, config, nodes, network, calls, steadyFrom>>

None == [none |-> TRUE]   \* what an ECU without a netmap message sends

-----------------------------------------------------------------------------
(* Building.                                                               *)

\* literal_fields: a symbol must be one of its field's, a number is taken.
LiteralOk(message, name, literal) ==
  "symbol" \in DOMAIN literal =>
    /\ HasField(message, name)
    /\ ResolveSymbol(FieldOf(message, name), literal.symbol).result = "ok"

Literal(message, name, literal) ==
  IF "symbol" \in DOMAIN literal
  THEN LET f == FieldOf(message, name)
       IN  [num |-> RawToPhysical(f, ResolveSymbol(f, literal.symbol).value)]
  ELSE literal

\* UdpTarget registers no firmware at all; a TcpSim is given finished nodes.
Buildable(ecu) ==
  IF ecu.kind = "udp-sil" THEN stack # "udp" /\ ecu.name \in Firmware
  ELSE /\ ecu.message \in DOMAIN Netmap
       /\ stack # "tcp" =>
            \A f \in DOMAIN ecu.fields : LiteralOk(Netmap[ecu.message], f, ecu.fields[f])

MessageOf(ecu) == IF ecu.kind = "udp-sil" THEN None ELSE Netmap[ecu.message]

\* UdpConfigEcu::new: a field that is not given is a physical zero.
BaseOf(ecu) ==
  IF ecu.kind = "udp-sil" THEN <<>>
  ELSE LET m == Netmap[ecu.message]
       IN  [f \in DOMAIN ecu.fields \cup {g.name : g \in Range(m.fields)} |->
              IF f \notin DOMAIN ecu.fields THEN [num |-> 0]
              ELSE IF stack = "tcp" THEN ecu.fields[f]
              ELSE Literal(m, f, ecu.fields[f])]

BuildEcu ==
  /\ pc = "build"
  /\ Len(ecus) < Len(config)
  /\ LET ecu == config[Len(ecus) + 1]
     IN  /\ Buildable(ecu)
         /\ ecus' = Append(ecus, [name |-> ecu.name, kind |-> ecu.kind,
                                  message |-> MessageOf(ecu), period |-> ecu.period])
         /\ base' = Append(base, BaseOf(ecu))
  /\ overrides' = Append(overrides, <<>>)
  /\ next' = Append(next, 0)
  /\ steadyFrom' = Append(steadyFrom, 0)
  /\ UNCHANGED <<pc, stack, config, network, calls>>

BuildFails ==
  /\ pc = "build"
  /\ Len(ecus) < Len(config)
  /\ ~Buildable(config[Len(ecus) + 1])
  /\ pc' = "failed"
  /\ UNCHANGED <<stack, config, nodes, network, calls, steadyFrom>>

Built ==
  /\ pc = "build"
  /\ Len(ecus) = Len(config)
  /\ pc' = "running"
  /\ UNCHANGED <<stack, config, nodes, network, calls, steadyFrom>>

-----------------------------------------------------------------------------
(* The config nodes.                                                       *)

IsConfig(i) == ecus[i].message # None

\* Mutant: the override of one field hides the base of the others.
CurrentOverridesOnly(i) ==
  [f \in {g.name : g \in Range(ecus[i].message.fields)} |->
     IF f \in DOMAIN overrides[i] THEN overrides[i][f]
     ELSE IF overrides[i] # <<>> \/ f \notin DOMAIN base[i] THEN [num |-> 0]
     ELSE base[i][f]]

\* encode(): every field of the message, an override before the base.
Current(i) ==
  [f \in {g.name : g \in Range(ecus[i].message.fields)} |->
     IF f \in DOMAIN overrides[i] THEN overrides[i][f]
     ELSE IF f \in DOMAIN base[i] THEN base[i][f]
     ELSE [num |-> 0]]

Encoded(i) == EncodeFields(ecus[i].message, Current(i))
Due(i) == IsConfig(i) /\ time >= next[i]
Transmits(i) == Due(i) /\ Encoded(i).result = "ok"

\* Mutant: a node that could not encode gives up.
NextUpdateGivesUp(i) ==
  IF Due(i) THEN (IF Transmits(i) THEN time ELSE MaxTime) + ecus[i].period ELSE next[i]

\* A node that cannot encode waits for its next period all the same.
NextUpdate(i) == IF Due(i) THEN time + ecus[i].period ELSE next[i]

\* What the ECU is to send: for the properties, kept with the message.
Given(i) ==
  [f \in {g.name : g \in Range(ecus[i].message.fields)} |->
     IF f \in DOMAIN overrides[i] THEN overrides[i][f] ELSE base[i][f]]

Datagram(i) ==
  [ecu |-> i, dst |-> ecus[i].message.dst, payload |-> Encoded(i).value,
   ts |-> time, said |-> Given(i), sound |-> TRUE]

-----------------------------------------------------------------------------
(* A step of the network, NetworkSim::step with the rules of UdpFault and  *)
(* TcpFault.                                                               *)

Active(rule) == rule.start <= time /\ time < rule.start + rule.duration
ActiveFor(dst) == {k \in DOMAIN rules : Active(rules[k]) /\ rules[k].dst = dst}

\* The first active rule for the endpoint, as a set.
Decides(dst) == {rules[k] : k \in {j \in ActiveFor(dst) : \A i \in ActiveFor(dst) : j <= i}}

Acts(m, action) == \E r \in Decides(m.dst) : r.action = action

\* A byte with the bits of the mask inverted.
Flipped(byte, mask) ==
  MapThenSumSet(LAMBDA i : 2 ^ i * ((byte \div 2 ^ i + mask \div 2 ^ i) % 2), 0 .. 7)

Corrupted(m) ==
  LET r == CHOOSE rule \in Decides(m.dst) : TRUE
  IN  IF r.byte \in DOMAIN m.payload
      THEN [m EXCEPT !.payload[r.byte] = Flipped(@, r.mask), !.sound = FALSE] ELSE m

Delayed(m) ==
  LET r == CHOOSE rule \in Decides(m.dst) : TRUE
  IN  [at |-> time + r.delay, born |-> time, message |-> [m EXCEPT !.ts = @ + r.delay]]

Record(newest, m) ==
  [d \in DOMAIN newest \cup {m.dst} |-> IF d = m.dst THEN m ELSE newest[d]]

\* The list of delayed messages is in the order of the steps, within one in that
\* of the nodes.
Before(g, h) == g.born < h.born \/ (g.born = h.born /\ g.message.ecu < h.message.ecu)

\* What an endpoint shows behind a step: the last of the delayed messages that
\* are due for it, else the last of the step's own, else what it showed.
Newest(d, routed, due) ==
  LET late == {h \in due : h.message.dst = d}
      now == {m \in routed : m.dst = d}
  IN  IF late # {} THEN (CHOOSE h \in late : \A g \in late : g = h \/ Before(g, h)).message
      ELSE IF now # {} THEN CHOOSE m \in now : \A n \in now : n.ecu <= m.ecu
      ELSE latest[d]

Disturbed(i) ==
  \/ ActiveFor(ecus[i].message.dst) # {}
  \/ \E h \in held : h.message.dst = ecus[i].message.dst

\* One step: the nodes' messages in their order, then the delayed ones.
Tick ==
  /\ pc = "running"
  /\ time + StepUs <= MaxTime
  /\ LET pushed == {Datagram(i) : i \in {j \in DOMAIN ecus : Transmits(j)}}
         routed == {IF Acts(m, "corrupt") THEN Corrupted(m) ELSE m :
                      m \in {n \in pushed : ~Acts(n, "drop") /\ ~Acts(n, "delay")}}
         waiting == held \cup {Delayed(m) : m \in {n \in pushed : Acts(n, "delay")}}
         due == {h \in waiting : h.at <= time}
     IN  /\ held' = waiting \ due
         /\ latest' = [d \in DOMAIN latest \cup {m.dst : m \in routed}
                            \cup {h.message.dst : h \in due} |-> Newest(d, routed, due)]
  /\ time' = time + StepUs
  /\ next' = [i \in DOMAIN ecus |-> NextUpdate(i)]
  /\ steadyFrom' = [i \in DOMAIN ecus |->
                      IF IsConfig(i) /\ Disturbed(i) THEN time' ELSE steadyFrom[i]]
  /\ UNCHANGED <<pc, stack, config, ecus, base, overrides, rules, calls>>

-----------------------------------------------------------------------------
(* The calls of a test.                                                    *)

\* Of ECUs with one name the target's map holds the last; a TcpSim is called
\* with the index connect() returned.
Addressed(name) ==
  LET found == {i \in DOMAIN ecus : ecus[i].name = name}
  IN  IF stack = "tcp" THEN found ELSE {i \in found : \A j \in found : j <= i}

\* The firmware target refuses its firmware's name; the node looks at the names
\* of message and field only.
Accepted(i, r) ==
  /\ stack = "sut" => ~ \E e \in Range(config) : e.kind = "udp-sil" /\ e.name = r.ecu
  /\ IsConfig(i)
  /\ ecus[i].message.name = r.message
  /\ HasField(ecus[i].message, r.field)

SetField(r) ==
  /\ pc = "running"
  /\ calls < MaxCalls
  /\ calls' = calls + 1
  /\ \E i \in Addressed(r.ecu) :
       /\ Accepted(i, r)
       /\ overrides' = [overrides EXCEPT ![i] =
            [f \in DOMAIN @ \cup {r.field} |-> IF f = r.field THEN r.value ELSE @[f]]]
       /\ steadyFrom' = [steadyFrom EXCEPT ![i] = time]
  /\ UNCHANGED <<pc, stack, config, ecus, base, next, network>>

\* A rule of a test starts now or later.
AddFault(fault) ==
  /\ pc = "running"
  /\ calls < MaxCalls
  /\ calls' = calls + 1
  /\ rules' = Append(rules, [fault EXCEPT !.start = time + @])
  /\ UNCHANGED <<pc, stack, config, nodes, time, held, latest, steadyFrom>>

\* send_msg: past the rules, at once.
Inject(datagram) ==
  /\ pc = "running"
  /\ calls < MaxCalls
  /\ calls' = calls + 1
  /\ latest' = Record(latest, [ecu |-> 0, dst |-> datagram.dst, payload |-> datagram.payload,
                               ts |-> time, said |-> <<>>, sound |-> FALSE])
  /\ steadyFrom' = [i \in DOMAIN ecus |->
       IF IsConfig(i) /\ ecus[i].message.dst = datagram.dst THEN time ELSE steadyFrom[i]]
  /\ UNCHANGED <<pc, stack, config, nodes, time, rules, held>>

\* reset(): the simulation is built again from the configuration.
Reset ==
  /\ pc = "running"
  /\ stack # "tcp"
  /\ calls < MaxCalls
  /\ calls' = calls + 1
  /\ pc' = "build"
  /\ ecus' = <<>> /\ base' = <<>> /\ overrides' = <<>> /\ next' = <<>>
  /\ time' = 0 /\ rules' = <<>> /\ held' = {} /\ latest' = <<>>
  /\ steadyFrom' = <<>>
  /\ UNCHANGED <<stack, config>>

Init ==
  /\ pc = "build"
  /\ stack \in Stacks
  /\ config \in EthEcus
  /\ ecus = <<>> /\ base = <<>> /\ overrides = <<>> /\ next = <<>>
  /\ time = 0 /\ rules = <<>> /\ held = {} /\ latest = <<>>
  /\ calls = 0
  /\ steadyFrom = <<>>

Build == BuildEcu \/ BuildFails \/ Built

Next ==
  \/ Build \/ Tick \/ Reset
  \/ \E r \in Fields : SetField(r)
  \/ \E f \in Faults : AddFault(f)
  \/ \E d \in Datagrams : Inject(d)

-----------------------------------------------------------------------------
(* Properties.                                                             *)

Held(type) ==
  LET all == Span(type)
  IN  IF type = "bool" THEN 0 .. 1
      ELSE IF Signed(type) THEN -(all \div 2) .. all \div 2 - 1 ELSE 0 .. all - 1
Distance(x, y) == IF x < y THEN y - x ELSE x - y

\* A number nearer than half a step to something the field holds.
Sendable(field, value) ==
  IF "symbol" \in DOMAIN value
  THEN value.symbol \in Range(field.values)
  ELSE \E raw \in Held(field.type) :
         2 * Distance(raw * field.factor + field.shift, value.num) < Distance(field.factor, 0)

AllSendable(i) ==
  \A f \in Range(ecus[i].message.fields) :
    /\ f.offset + Size(f.type) <= ecus[i].message.length
    /\ Sendable(f, Given(i)[f.name])

\* Fields that lie in different bytes and symbols whose raw values fit.
Proper(message) ==
  LET bytes(f) == f.offset .. f.offset + Size(f.type) - 1
  IN  /\ \A f, g \in Range(message.fields) : f # g => bytes(f) \cap bytes(g) = {}
      /\ \A f \in Range(message.fields) :
           \A raw \in DOMAIN f.values : raw \in Held(f.type)

\* What a poll returns, unless the test injected or corrupted it, decodes to
\* the values that were in force when it was sent: a number to within half a
\* resolution step, a symbol to the same symbol; no field's bytes disturb
\* another's, and no value is cut to its field.
PollShowsFields ==
  \A d \in DOMAIN latest :
    LET m == ecus[latest[d].ecu].message
    IN  latest[d].sound /\ Proper(m) =>
          \A f \in Range(m.fields) :
            LET read == DecodeField(m, latest[d].payload, f.name)
                said == latest[d].said[f.name]
            IN  /\ read.result = "ok"
                /\ IF "symbol" \in DOMAIN said THEN read.value.symbol = said.symbol
                   ELSE 2 * Distance(read.value.value, said.num) <= Distance(f.factor, 0)

SoleSender(i) ==
  \A j \in DOMAIN ecus : IsConfig(j) /\ ecus[j].message.dst = ecus[i].message.dst => j = i

\* A period and a step after the last override, injected datagram or fault, a
\* poll returns a fresh message with the values in force, if they can be sent
\* at all: also after a value that no field can hold has silenced the node,
\* after drops, and when the last delayed message has come in behind newer ones.
\* Fresh is a message of the last step, or one less than a period older.
OverridesTakeEffect ==
  pc = "running" =>
    \A i \in DOMAIN ecus :
      /\ IsConfig(i) /\ AllSendable(i) /\ SoleSender(i)
      /\ time - steadyFrom[i] >= ecus[i].period + StepUs
      => LET d == ecus[i].message.dst
             age == time - StepUs - latest[d].ts
         IN  /\ d \in DOMAIN latest
             /\ latest[d].said = Given(i) /\ latest[d].sound
             /\ age = 0 \/ age < ecus[i].period
=============================================================================
