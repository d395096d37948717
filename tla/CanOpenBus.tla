----------------------------- MODULE CanOpenBus -----------------------------
(***************************************************************************)
(* The CANopen example as it runs: config nodes, whose signals a test      *)
(* overrides, send NMT and RPDO1 frames through the CANopen codec; the     *)
(* controller firmware decodes their bytes and answers with TPDO1 and      *)
(* heartbeat frames, which the test decodes.  One tick is the updates of   *)
(* all ECUs in the order of vehicle.yaml, the firmware last, then the      *)
(* routing of what they pushed, frame by frame.                            *)
(*                                                                         *)
(* CanOpenNode is what this promises of the firmware: the same node with   *)
(* commands and temperatures for bytes, and an environment that may send   *)
(* anything.  The mapping is at the end.                                   *)
(***************************************************************************)
EXTENDS CanOpenCodec

CONSTANTS
  Eds,          (* eds.yaml: [node, tpdo1, rpdo1]                          *)
  Masters,      (* the config nodes: [message, period, values]             *)
  Requests,     (* set_signal calls: [master, signal, value or symbol]     *)
  StepUs, TpdoPeriod, HbPeriod, MaxTime

VARIABLES
  time,
  pc,          (* "idle" between ticks, "route" inside of one              *)
  node,        (* the firmware: state, temperature, open, nextTpdo, nextHb *)
  pushed,      (* the frames of this tick and how many have been routed    *)
  bus,         (* newest frame of each id, when the last tick ended        *)
  since,       (* for the properties: as in CanOpenNode                    *)
  masters      (* ConfigEcu: values, next; and for the properties told, the*)
               (* values it sent last                                      *)

vars == <<time, pc, node, pushed, bus, since, masters>>

Operational == HbStates["OPERATIONAL"]

InBand(temperature) == 10 * One <= temperature /\ temperature <= 90 * One

-----------------------------------------------------------------------------
(* The config nodes.                                                       *)

\* The physical value of a request, a number or a symbol.
Physical(request) ==
  IF "symbol" \in DOMAIN request
  THEN ForSymbol(Eds, Masters[request.master].message, request.signal, request.symbol)
  ELSE Done(request.value)

SetSignal ==
  /\ pc = "idle"
  /\ \E request \in Requests :
       LET physical == Physical(request)
       IN  /\ physical.result = "ok"
           /\ Check(Eds, Masters[request.master].message, request.signal, physical.value)
           /\ masters' = [masters EXCEPT ![request.master].values[request.signal] = physical.value]
  /\ UNCHANGED <<time, pc, node, pushed, bus, since>>

MasterDue(i) == time >= masters[i].next

MasterFrames(i) ==
  LET data == Encode(Eds, Masters[i].message, masters[i].values)
  IN  IF MasterDue(i) /\ data.result = "ok"
      THEN <<[id |-> MessageOf(Eds, Masters[i].message).id, data |-> data.value]>> ELSE <<>>

-----------------------------------------------------------------------------
(* The firmware.                                                           *)

\* Mutant: a START leaves the valve as it was before the node was stopped.
OnNmtKeepsValve(data) ==
  LET to == DecodeNmt(data, "node")
      command == DecodeNmt(data, "command")
  IN  IF to.result # "ok" \/ Rounded(to.value, One) # Eds.node THEN node
      ELSE CASE SymbolOf(NmtCommands, Rounded(command.value, One)) = "START" ->
                  [node EXCEPT !.state = Operational]
             [] SymbolOf(NmtCommands, Rounded(command.value, One)) = "STOP" ->
                  [node EXCEPT !.state = HbStates["STOPPED"]]
             [] SymbolOf(NmtCommands, Rounded(command.value, One)) = "PRE_OPERATIONAL" ->
                  [node EXCEPT !.state = HbStates["PRE_OPERATIONAL"]]
             [] OTHER -> node

\* on_message of an NMT frame.
OnNmt(data) ==
  LET to == DecodeNmt(data, "node")
      command == DecodeNmt(data, "command")
  IN  IF to.result # "ok" \/ Rounded(to.value, One) # Eds.node THEN node
      ELSE CASE SymbolOf(NmtCommands, Rounded(command.value, One)) = "START" ->
                  [node EXCEPT !.state = Operational, !.open = InBand(node.temperature)]
             [] SymbolOf(NmtCommands, Rounded(command.value, One)) = "STOP" ->
                  [node EXCEPT !.state = HbStates["STOPPED"]]
             [] SymbolOf(NmtCommands, Rounded(command.value, One)) = "PRE_OPERATIONAL" ->
                  [node EXCEPT !.state = HbStates["PRE_OPERATIONAL"]]
             [] OTHER -> node

\* Mutant: an RPDO1 opens a valve in every state.
OnRpdoAlways(data) ==
  LET temperature == Decode(Eds, "RPDO1", data, "temperature")
  IN  IF temperature.result # "ok" THEN node
      ELSE [node EXCEPT !.temperature = temperature.value, !.open = InBand(temperature.value)]

\* on_message of an RPDO1.
OnRpdo(data) ==
  LET temperature == Decode(Eds, "RPDO1", data, "temperature")
  IN  IF temperature.result # "ok" THEN node
      ELSE [node EXCEPT !.temperature = temperature.value,
              !.open = IF node.state = Operational THEN InBand(temperature.value) ELSE @]

\* Mutant: the heartbeat is sent with the TPDO's timer.
HbDueWithTpdo == time >= node.nextHb /\ time >= node.nextTpdo

TpdoDue == time >= node.nextTpdo
HbDue == time >= node.nextHb

FirmwareFrames ==
  (IF TpdoDue
   THEN <<[id |-> tpdo1(Eds.node),
           data |-> Encode(Eds, "TPDO1", [valve_open |-> IF node.open THEN One ELSE 0]).value]>>
   ELSE <<>>)
  \o (IF HbDue
      THEN <<[id |-> heartbeat(Eds.node),
              data |-> Encode(Eds, "Heartbeat", [state |-> One * node.state]).value]>>
      ELSE <<>>)

-----------------------------------------------------------------------------
(* A tick.                                                                 *)

Update ==
  /\ pc = "idle"
  /\ time < MaxTime
  /\ pushed' = [frames |-> FlattenSeq([i \in DOMAIN masters |-> MasterFrames(i)]) \o FirmwareFrames,
                routed |-> 0]
  /\ masters' = [i \in DOMAIN masters |->
       IF MasterDue(i)
       THEN [masters[i] EXCEPT !.next = time + Masters[i].period, !.told = masters[i].values]
       ELSE masters[i]]
  /\ node' = [node EXCEPT !.nextTpdo = IF TpdoDue THEN time + TpdoPeriod ELSE @,
                          !.nextHb = IF HbDue THEN time + HbPeriod ELSE @]
  /\ pc' = "route"
  /\ UNCHANGED <<time, bus, since>>

\* The firmware is subscribed to NMT and to its RPDO1.
Route ==
  /\ pc = "route"
  /\ pushed.routed < Len(pushed.frames)
  /\ LET frame == pushed.frames[pushed.routed + 1]
         new == CASE frame.id = nmt -> OnNmt(frame.data)
                  [] frame.id = rpdo1(Eds.node) -> OnRpdo(frame.data)
                  [] OTHER -> node
     IN  /\ node' = new
         /\ since' = [valve |-> IF new.open = node.open THEN since.valve ELSE time,
                      state |-> IF new.state = node.state THEN since.state ELSE time]
  /\ pushed' = [pushed EXCEPT !.routed = @ + 1]
  /\ UNCHANGED <<time, pc, bus, masters>>

\* The newest frame of the tick with an id, else the one from before.
Newest(id) ==
  LET sent == {i \in DOMAIN pushed.frames : pushed.frames[i].id = id}
  IN  IF sent = {} THEN bus[id]
      ELSE pushed.frames[CHOOSE i \in sent : \A j \in sent : j <= i].data

EndTick ==
  /\ pc = "route"
  /\ pushed.routed = Len(pushed.frames)
  /\ bus' = [id \in DOMAIN bus |-> Newest(id)]
  /\ pushed' = [frames |-> <<>>, routed |-> 0]
  /\ time' = time + StepUs
  /\ pc' = "idle"
  /\ UNCHANGED <<node, since, masters>>

Init ==
  /\ ValidNode(Eds.node)
  /\ time = 0
  /\ pc = "idle"
  /\ node = [state |-> HbStates["PRE_OPERATIONAL"], temperature |-> 0, open |-> FALSE,
             nextTpdo |-> 0, nextHb |-> 0]
  /\ pushed = [frames |-> <<>>, routed |-> 0]
  /\ bus = [id \in {tpdo1(Eds.node), heartbeat(Eds.node)} |-> <<>>]
  /\ since = [valve |-> 0, state |-> 0]
  /\ masters = [i \in DOMAIN Masters |->
       [values |-> Masters[i].values, next |-> 0, told |-> <<>>]]

Next == SetSignal \/ Update \/ Route \/ EndTick

-----------------------------------------------------------------------------
(* What the test sees, and the abstract node.                              *)

\* What `expect` decodes from a frame: the TPDO's signal, the heartbeat's symbol.
SeenValve(data) == Decode(Eds, MessageById(Eds, tpdo1(Eds.node)), data, "valve_open").value = One
SeenState(data) ==
  SymbolOf(HbStates,
    Rounded(Decode(Eds, MessageById(Eds, heartbeat(Eds.node)), data, "state").value, One))

PushedWith(id) == {pushed.frames[i].data : i \in {j \in DOMAIN pushed.frames : pushed.frames[j].id = id}}

Abstract == INSTANCE CanOpenNode WITH
  node <- [state |-> SymbolOf(HbStates, node.state),
           temperature |-> IF InBand(node.temperature) THEN "in" ELSE "out",
           open |-> node.open, nextTpdo |-> node.nextTpdo, nextHb |-> node.nextHb],
  pushed <- [valve |-> {SeenValve(d) : d \in PushedWith(tpdo1(Eds.node))},
             state |-> {SeenState(d) : d \in PushedWith(heartbeat(Eds.node))}],
  bus <- [valve |-> bus[tpdo1(Eds.node)] # <<>> /\ SeenValve(bus[tpdo1(Eds.node)]),
          state |-> IF bus[heartbeat(Eds.node)] = <<>> THEN "PRE_OPERATIONAL"
                    ELSE SeenState(bus[heartbeat(Eds.node)])]

-----------------------------------------------------------------------------
(* Properties.                                                             *)

Told(i) == masters[i].told
StateAfter(command) == IF command = "START" THEN "OPERATIONAL"
                       ELSE IF command = "STOP" THEN "STOPPED" ELSE command

\* Between ticks the firmware is in the state, and knows the temperature, that
\* the config nodes last sent, as the test wrote them: through set_signal, the
\* encoder, the bytes, the decoder and the handlers, within half a raw unit.
CommandsArrive ==
  pc = "idle" => \A i \in DOMAIN Masters :
    /\ Masters[i].message = "NMT" /\ Told(i) # <<>> =>
         LET command == SymbolOf(NmtCommands, Rounded(Told(i)["command"], One))
         IN  Rounded(Told(i)["node"], One) = Eds.node /\ command # "" =>
               SymbolOf(HbStates, node.state) = StateAfter(command)
    /\ Masters[i].message = "RPDO1" /\ Told(i) # <<>> =>
         LET d == node.temperature - Told(i)["temperature"]
         IN  2 * (IF d < 0 THEN -d ELSE d) <= Eds.rpdo1[1].factor
=============================================================================
