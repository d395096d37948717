--------------------------- MODULE MCConfigVehicle ---------------------------
(* DBC files, vehicles and set_signal calls for TLC. *)
EXTENDS ConfigVehicle

Sig(name, start, length, order, signed, factor, offset) ==
  [kind |-> "SG",
   signal |-> [name |-> name, start |-> start, length |-> length, order |-> order,
               signed |-> signed, factor |-> factor, offset |-> offset, table |-> <<>>]]
Bo(id, name, dlc) == [kind |-> "BO", id |-> id, name |-> name, dlc |-> dlc]
Val(id, signal, pairs) == [kind |-> "VAL", id |-> id, signal |-> signal, pairs |-> pairs]
Other == [kind |-> "other"]
Malformed == [kind |-> "malformed"]

(* All short files over these lines. *)
A == Bo(256, "Battery", 2)
B == Bo(528, "ChargeStatus", 1)
Temp == Sig("temp", 2, 5, "intel", TRUE, 4, -3)      \* bits 2..6 of the first byte
State == Sig("state", 1, 4, "motorola", FALSE, 1, 0) \* from bit 1 on into the second byte
Names == Val(256, "state", <<<<1, "INIT">>, <<2, "READY">>, <<2, "FAULT">>>>)
MCLines == {A, B, Temp, State, Names, Other, Malformed}
ShortFiles == UNION {[1 .. n -> MCLines] : n \in 0 .. 3}

(* The powertrain's messages, a second definition, two value tables. *)
Powertrain ==
  <<Bo(256, "Battery", 2), Temp, State, Names, Val(256, "state", <<<<2, "READY">>>>),
    Bo(272, "Brake", 1), Bo(288, "Driver", 1), Bo(512, "ChargeRequest", 1),
    Bo(528, "ChargeStatus", 1), Bo(544, "MotorEnable", 1), Bo(560, "MotorStatus", 1)>>
LongFiles == {
  Powertrain,
  <<Bo(256, "Battery", 2), Temp, Bo(528, "Battery", 1), Sig("state", 7, 8, "motorola", TRUE, 1, 0)>>,
  <<A, Temp, State, A, State, Names>>,
  <<A, State, Temp, Names>>,
  <<Bo(256, "Battery", 9), Temp>>,                              \* longer than a frame
  <<Bo(256, "Battery", 0), Sig("temp", 0, 3, "intel", TRUE, 2, 0)>>,
  <<Bo(256, "Battery", 1), Sig("temp", 3, 6, "intel", TRUE, 1, 0)>>,    \* behind the data
  <<Bo(256, "Battery", 1), Sig("temp", 2, 6, "motorola", TRUE, 1, 0)>>, \* behind the data
  <<Bo(256, "Battery", 2), Sig("temp", 4, 12, "motorola", TRUE, 4, 0)>>,
  <<Bo(256, "Battery", 2), Sig("temp", 0, 2, "intel", FALSE, 0, 1)>>,   \* no resolution
  <<Bo(256, "Battery", 2), Sig("temp", 0, 16, "intel", TRUE, -3, 7),
    Sig("state", 3, 4, "intel", FALSE, 1, 0)>>}                         \* overlapping
Layouts == {<<Bo(256, "Battery", 3), Sig("temp", start, length, order, FALSE, 1, 0)>> :
              start \in 0 .. 15, length \in {1, 4, 9}, order \in {"intel", "motorola"}}
MCFiles == ShortFiles \cup LongFiles \cup Layouts

(* Vehicles. *)
Num(v) == [num |-> v]
Sym(s) == [symbol |-> s]
Node(name, message, signals, period) ==
  [name |-> name, kind |-> "config", message |-> message, signals |-> signals,
   listen |-> <<>>, period |-> period]
Ref(kind) == [name |-> kind, kind |-> kind, signals |-> <<>>, listen |-> <<>>, period |-> 2]
Sil(name) == [name |-> name, kind |-> "sil", signals |-> <<>>,
              listen |-> <<256, 256>>, period |-> 2]
MCVehicles == {
  <<Node("battery", "Battery", [temp |-> Num(-5)], 3), Sil("firmware")>>,
  <<Node("battery", "Battery", [temp |-> Num(8), state |-> Sym("READY")], 2)>>,
  <<Node("battery", "Battery", [state |-> Num(16)], 2)>>,
  <<Node("battery", "Battery", <<>>, 2)>>,
  <<Node("battery", "Battery", <<>>, 1), Node("battery", "ChargeStatus", <<>>, 2)>>,
  <<Ref("charger"), Ref("vcu"), Ref("motor"), Node("battery", "Battery", <<>>, 3)>>,
  <<Sil("unknown")>>}
MCRegistered == {"firmware"}

Call(signal, value) == [ecu |-> "battery", id |-> 256, signal |-> signal, value |-> value]
MCRequests ==
  {Call("temp", Num(v)) : v \in {-66, -65, 11, 59}} \cup
  {Call("state", v) : v \in {Num(15), Sym("READY"), Sym("INIT")}} \cup
  {[Call("state", Num(1)) EXCEPT !.id = 528], Call("none", Num(0)),
   [Call("state", Num(1)) EXCEPT !.ecu = "firmware"]}
=============================================================================
