----------------------------- MODULE MCVehicles -----------------------------
(* A netmap, vehicles and calls for Ethernet, next to those of             *)
(* MCConfigVehicle for the CAN bus.                                        *)
EXTENDS Vehicles, MCConfigVehicle, TLC

Field(name, offset, type, factor, shift, symbols) ==
  [name |-> name, offset |-> offset, type |-> type, factor |-> factor,
   shift |-> shift, values |-> symbols]
States == (0 :> "OFF") @@ (2 :> "ON") @@ (3 :> "ON")
MCNetmap ==
  ("Motion" :>
     [name |-> "Motion", dst |-> "host", length |-> 6,
      fields |-> <<Field("duty", 4, "u16be", 2, -1, <<>>),
                   Field("mode", 2, "u8", 1, 0, States),
                   Field("speed", 0, "i16le", -3, 2, <<>>)>>]) @@
  ("Lamp" :>
     [name |-> "Lamp", dst |-> "host", length |-> 4,
      fields |-> <<Field("level", 0, "u32le", 1, 0, <<>>)>>]) @@
  \* A zero does not fit in this one's field.
  ("Cell" :>
     [name |-> "Cell", dst |-> "cell", length |-> 2,
      fields |-> <<Field("on", 1, "bool", 1, 0, <<>>),
                   Field("volt", 0, "u8", 1, 2, <<>>)>>]) @@
  \* A field behind the payload; overlapping fields and a symbol out of range.
  ("Short" :>
     [name |-> "Short", dst |-> "cell", length |-> 1,
      fields |-> <<Field("level", 0, "u16le", 1, 0, <<>>)>>]) @@
  ("Overlap" :>
     [name |-> "Overlap", dst |-> "cell", length |-> 3,
      fields |-> <<Field("a", 0, "u16le", 1, 0, <<>>),
                   Field("b", 1, "i16le", 1, 0, (9 :> "HIGH"))>>])

EthNode(message, fields, period) ==
  [name |-> "node", kind |-> "udp-config", message |-> message, fields |-> fields,
   period |-> period]
EthSil(name) == [name |-> name, kind |-> "udp-sil", period |-> 1]
MCEthVehicles == {
  <<EthNode("Motion", [mode |-> Sym("ON"), speed |-> Num(-4)], 3), EthSil("firmware")>>,
  <<EthNode("Motion", [spare |-> Num(1), duty |-> Num(29)], 2)>>,
  <<EthNode("Motion", <<>>, 2), EthNode("Lamp", <<>>, 4)>>,
  <<EthNode("Cell", [on |-> Num(1)], 3)>>,
  <<EthNode("Short", <<>>, 2)>>,
  <<EthNode("Overlap", [a |-> Num(5), b |-> Sym("HIGH")], 2)>>,
  <<EthNode("Motion", [mode |-> Sym("FAST")], 2)>>,
  <<EthNode("Nowhere", <<>>, 2)>>,
  <<EthSil("unknown")>>}

EthCall(message, field, value) ==
  [ecu |-> "node", message |-> message, field |-> field, value |-> value]
MCFields ==
  {EthCall("Motion", "speed", Num(v)) : v \in {-21, -19, 28}} \cup
  {EthCall("Motion", "mode", v) : v \in {Sym("OFF"), Sym("FAST")}} \cup
  {EthCall("Lamp", "level", Num(v)) : v \in {255, 256}} \cup
  {EthCall("Cell", "volt", Num(v)) : v \in {1, 5}} \cup
  {EthCall("Motion", "none", Num(0)), EthCall("Motion", "level", Num(0)),
   [EthCall("Motion", "speed", Num(0)) EXCEPT !.ecu = "firmware"]}

\* One of each kind, two of which overlap, and one that ends while messages wait.
MCFaults == {
  [dst |-> "host", action |-> "drop", start |-> 0, duration |-> 3],
  [dst |-> "host", action |-> "delay", start |-> 0, duration |-> 3, delay |-> 3],
  [dst |-> "cell", action |-> "delay", start |-> 1, duration |-> 9, delay |-> 2],
  [dst |-> "host", action |-> "corrupt", start |-> 0, duration |-> 2, byte |-> 1, mask |-> 2],
  [dst |-> "cell", action |-> "corrupt", start |-> 0, duration |-> 2, byte |-> 9, mask |-> 1]}
MCDatagrams == {[dst |-> "host", payload |-> <<1, 0>>]}
MCFirmware == {"firmware"}
=============================================================================
