---------------------------- MODULE CanOpenCodec ----------------------------
(***************************************************************************)
(* The CANopen message map, crates/embrig-canopen: the COB-IDs of a node,  *)
(* its PDOs, which are packed like DBC messages, and the two messages with *)
(* codecs of their own, heartbeat and NMT.                                 *)
(*                                                                         *)
(* A byte is the set of its bits that are one; a physical value is a whole *)
(* number of hundredths, so that rounding has something to round.          *)
(***************************************************************************)
EXTENDS DbcCodec

One == 100

TPDO1_COB == 384
RPDO1_COB == 512
HEARTBEAT_COB == 1792

tpdo1(n) == TPDO1_COB + n
rpdo1(n) == RPDO1_COB + n
heartbeat(n) == HEARTBEAT_COB + n
nmt == 0

NmtCommands == [START |-> 1, STOP |-> 2, PRE_OPERATIONAL |-> 128]
HbStates == [BOOT_UP |-> 0, STOPPED |-> 4, OPERATIONAL |-> 5, PRE_OPERATIONAL |-> 127]

Byte(n) == {i \in 0 .. 7 : Bit(n, i)}
Number(byte) == FromBits(byte)

\* The name of a code, or "" when it has none.
SymbolOf(codes, raw) ==
  IF \E s \in DOMAIN codes : codes[s] = raw THEN CHOOSE s \in DOMAIN codes : codes[s] = raw ELSE ""

-----------------------------------------------------------------------------
(* HeartbeatMessage: [state].                                              *)

CheckHeartbeat(name, value) == name = "state" /\ 0 <= value /\ value <= 255 * One

EncodeHeartbeat(values) ==
  IF "state" \in DOMAIN values /\ CheckHeartbeat("state", values["state"])
  THEN Done(<<Byte(Rounded(values["state"], One))>>) ELSE Err

DecodeHeartbeat(data, name) ==
  IF name = "state" /\ data # <<>> THEN Done(One * Number(data[1])) ELSE Err

HeartbeatForSymbol(name, symbol) ==
  IF name = "state" /\ symbol \in DOMAIN HbStates THEN Done(One * HbStates[symbol]) ELSE Err

-----------------------------------------------------------------------------
(* NmtMessage: [node-id, command].                                         *)

CheckNmt(name, value) ==
  \/ name = "node" /\ 0 <= value /\ value <= 127 * One
  \/ name = "command" /\ 0 <= value /\ value <= 255 * One

\* Mutant: the bytes in the order of CiA 301, which decoding does not follow.
EncodeNmtSwapped(values) ==
  IF {"node", "command"} \subseteq DOMAIN values
     /\ CheckNmt("node", values["node"]) /\ CheckNmt("command", values["command"])
  THEN Done(<<Byte(Rounded(values["command"], One)), Byte(Rounded(values["node"], One))>>)
  ELSE Err

EncodeNmt(values) ==
  IF {"node", "command"} \subseteq DOMAIN values
     /\ CheckNmt("node", values["node"]) /\ CheckNmt("command", values["command"])
  THEN Done(<<Byte(Rounded(values["node"], One)), Byte(Rounded(values["command"], One))>>)
  ELSE Err

DecodeNmt(data, name) ==
  CASE Len(data) >= 2 /\ name = "node" -> Done(One * Number(data[1]))
    [] Len(data) >= 2 /\ name = "command" -> Done(One * Number(data[2]))
    [] OTHER -> Err

NmtForSymbol(name, symbol) ==
  IF name = "command" /\ symbol \in DOMAIN NmtCommands THEN Done(One * NmtCommands[symbol]) ELSE Err

-----------------------------------------------------------------------------
(* CanOpenCodec over the node description of eds.yaml:                     *)
(* [node, tpdo1, rpdo1], the last two sequences of signals.                *)

\* A PDO is a message of eight bytes with Intel signals and no symbols.
Pdo(id, signals) ==
  [id |-> id, dlc |-> 8,
   signals |-> [i \in DOMAIN signals |->
     [name |-> signals[i].name, start |-> signals[i].bit, length |-> signals[i].length,
      order |-> "intel", signed |-> signals[i].signed, factor |-> signals[i].factor,
      offset |-> signals[i].offset, table |-> <<>>]]]

\* CanOpenCodec::new.
ValidNode(n) == n \in 1 .. 127

\* message_by_name; TPDO1 and RPDO1 carry their message.
MessageOf(eds, name) ==
  CASE name = "TPDO1" -> Pdo(tpdo1(eds.node), eds.tpdo1)
    [] name = "RPDO1" -> Pdo(rpdo1(eds.node), eds.rpdo1)
    [] name = "Heartbeat" -> [id |-> heartbeat(eds.node)]
    [] name = "NMT" -> [id |-> nmt]

\* message_by_id, as the name of the message; "" when there is none.
MessageById(eds, id) ==
  CASE id = tpdo1(eds.node) -> "TPDO1"
    [] id = rpdo1(eds.node) -> "RPDO1"
    [] id = heartbeat(eds.node) -> "Heartbeat"
    [] id = nmt -> "NMT"
    [] OTHER -> ""

\* The MessageCodec of each of the four.
Encode(eds, name, values) ==
  CASE name = "Heartbeat" -> EncodeHeartbeat(values)
    [] name = "NMT" -> EncodeNmt(values)
    [] OTHER -> EncodeSignals(MessageOf(eds, name), values)

Check(eds, name, signal, value) ==
  CASE name = "Heartbeat" -> CheckHeartbeat(signal, value)
    [] name = "NMT" -> CheckNmt(signal, value)
    [] OTHER -> CheckValue(MessageOf(eds, name), signal, value)

ForSymbol(eds, name, signal, symbol) ==
  CASE name = "Heartbeat" -> HeartbeatForSymbol(signal, symbol)
    [] name = "NMT" -> NmtForSymbol(signal, symbol)
    [] OTHER -> Err

Decode(eds, name, data, signal) ==
  CASE name = "Heartbeat" -> DecodeHeartbeat(data, signal)
    [] name = "NMT" -> DecodeNmt(data, signal)
    [] OTHER -> DecodeSignal(MessageOf(eds, name), data, signal)
=============================================================================
