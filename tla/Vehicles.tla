------------------------------ MODULE Vehicles ------------------------------
(***************************************************************************)
(* The two kinds of vehicle a test drives through config nodes, one at a   *)
(* time: ECUs on a CAN bus over a DBC file (ConfigVehicle), and ECUs on    *)
(* Ethernet over a netmap (EthVehicle).                                    *)
(***************************************************************************)
EXTENDS ConfigVehicle

CONSTANTS Byte, Stacks, Netmap, EthVehicles, Firmware, Fields, Faults, Datagrams, MaxCalls

VARIABLES
  bus,                                    (* "can" or "ethernet"           *)
  ethPc, stack, ethConfig, ethEcus, base, overrides, ethNext, ethTime,
  rules, held, latest, calls, steadyFrom

ethVars == <<ethPc, stack, ethConfig, ethEcus, base, overrides, ethNext, ethTime,
             rules, held, latest, calls, steadyFrom>>
both == <<bus, vars, ethVars>>

Eth == INSTANCE EthVehicle WITH
  EthEcus <- EthVehicles,
  pc <- ethPc, config <- ethConfig, ecus <- ethEcus, next <- ethNext, time <- ethTime

-----------------------------------------------------------------------------
(* What the loaders of the files let through, and what a test passes.      *)

Numeric(value) == "symbol" \in DOMAIN value \/ value.num \in Int

\* A map of messages, each with its fields by name, none of a type left out here.
MessageDef(message) ==
  /\ DOMAIN message = {"name", "dst", "length", "fields"}
  /\ message.length \in Nat
  /\ message.fields \in Seq(Range(message.fields))
  /\ \A i, j \in DOMAIN message.fields :
       message.fields[i].name = message.fields[j].name => i = j
  /\ \A f \in Range(message.fields) :
       /\ f.offset \in Nat /\ f.type \in Eth!Types
       /\ f.factor \in Int /\ f.shift \in Int
       /\ DOMAIN f.values \subseteq Int /\ IsFiniteSet(DOMAIN f.values)

\* A line of a DBC file as the parser's functions read it.  Signals of no bits and
\* of 64 are left out: the code treats their limits apart.
LineDef(l) ==
  /\ l.kind = "BO" => l.id \in Nat /\ l.dlc \in Nat
  /\ l.kind = "SG" =>
       l.signal \in [name : {l.signal.name}, start : Nat, length : 1 .. 63,
                     order : {"intel", "motorola"}, signed : BOOLEAN,
                     factor : Int, offset : Int, table : {<<>>}]
  /\ l.kind = "VAL" =>
       /\ l.pairs \in Seq(Range(l.pairs))
       /\ \A pair \in Range(l.pairs) : pair[1] \in Int

ASSUME CanAssumption ==
  /\ \A f \in Files :
       /\ f \in Seq(Range(f))
       /\ \A l \in Range(f) : LineDef(l)
  /\ \A vehicle \in Vehicles :
       /\ vehicle \in Seq(Range(vehicle))
       /\ \A ecu \in Range(vehicle) :
            /\ ecu.period \in Nat
            /\ \A s \in DOMAIN ecu.signals : Numeric(ecu.signals[s])
  /\ \A r \in Requests : Numeric(r.value)

ASSUME EthernetAssumption ==
  /\ Byte \in Nat \ {0, 1}
  /\ MaxCalls \in Nat
  /\ \A name \in DOMAIN Netmap : MessageDef(Netmap[name])
  /\ \A vehicle \in EthVehicles :
       /\ vehicle \in Seq(Range(vehicle))
       /\ \A ecu \in Range(vehicle) :
            /\ ecu.period \in Nat
            /\ ecu.kind # "udp-sil" => \A f \in DOMAIN ecu.fields : Numeric(ecu.fields[f])
  /\ \A r \in Fields : Numeric(r.value)

-----------------------------------------------------------------------------

CanInit ==
  /\ bus = "can"
  /\ Init
  /\ ethPc = "" /\ stack = "" /\ ethConfig = <<>> /\ ethEcus = <<>> /\ base = <<>>
  /\ overrides = <<>> /\ ethNext = <<>> /\ ethTime = 0 /\ rules = <<>> /\ held = {}
  /\ latest = <<>> /\ calls = 0 /\ steadyFrom = <<>>

EthInit ==
  /\ bus = "ethernet"
  /\ Eth!Init
  /\ pc = "" /\ file = <<>> /\ line = 1 /\ current = -1 /\ network = <<>>
  /\ config = <<>> /\ ecus = <<>> /\ values = <<>> /\ next = <<>> /\ time = 0
  /\ frames = {} /\ sentAt = <<>>

CanNext == bus = "can" /\ Next /\ UNCHANGED <<bus, ethVars>>
EthNext == bus = "ethernet" /\ Eth!Next /\ UNCHANGED <<bus, vars>>

VehiclesSpec == (CanInit \/ EthInit) /\ [][CanNext \/ EthNext]_both

\* On Ethernet, what a poll returns is what was set when it was sent.
PollShowsFields == bus = "ethernet" => Eth!PollShowsFields

\* On Ethernet, an override takes effect within a period and a step.
OverridesTakeEffect == bus = "ethernet" => Eth!OverridesTakeEffect
=============================================================================
