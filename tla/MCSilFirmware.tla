---------------------------- MODULE MCSilFirmware ----------------------------
(* The three firmwares of the software-in-the-loop examples, one at a time,*)
(* each on its own virtual bus; the CANopen node with its masters and its  *)
(* codec, as examples/canopen/vehicle.yaml puts them together.             *)
EXTENDS Integers

CONSTANTS StepUs, Period, HbPeriod, MaxTime, MaxSpeed, WheelMax, MasterPeriod

ASSUME SilAssumption ==
  /\ {StepUs, Period, HbPeriod, MasterPeriod} \subseteq Nat \ {0}
  /\ {MaxTime, MaxSpeed, WheelMax} \subseteq Nat

VARIABLES firmware, time, pc, node, pushed, bus, since, masters

Sil == <<firmware, time, pc, node, pushed, bus, since, masters>>

\* The limits and one unit beyond them; a steering that both wheels can follow,
\* and one beyond them on each side.
Speeds == {0, -MaxSpeed, MaxSpeed + 1}
Steers == {0, 2, 4 * WheelMax, -4 * WheelMax}

\* eds.yaml: a valve bit, and a temperature in tenths of a degree.
Eds ==
  [node |-> 1,
   tpdo1 |-> <<[name |-> "valve_open", bit |-> 0, length |-> 1, signed |-> FALSE,
                factor |-> 100, offset |-> 0]>>,
   rpdo1 |-> <<[name |-> "temperature", bit |-> 0, length |-> 16, signed |-> FALSE,
                factor |-> 10, offset |-> 0]>>]

Masters ==
  <<[message |-> "RPDO1", period |-> MasterPeriod, values |-> [temperature |-> 4500]],
    [message |-> "NMT", period |-> MasterPeriod, values |-> [node |-> 100, command |-> 100]]>>

\* Temperatures at the upper limit of the band and where rounding decides it,
\* and one no frame can hold; the commands by name and by number, one of them
\* unknown; and another node.
Requests ==
  {[master |-> 1, signal |-> "temperature", value |-> v] : v \in {996, 994, 9004, 700000}}
  \cup {[master |-> 2, signal |-> "command", symbol |-> s] : s \in {"STOP", "PRE_OPERATIONAL"}}
  \cup {[master |-> 2, signal |-> "command", value |-> v] : v \in {100, 8500}}
  \cup {[master |-> 2, signal |-> "node", value |-> v] : v \in {100, 200}}

CanOpen == INSTANCE CanOpenBus WITH TpdoPeriod <- Period
Robot == INSTANCE RobotNode
Pump == INSTANCE PumpNode

Init ==
  \/ firmware = "canopen" /\ CanOpen!Init
  \/ firmware = "robot" /\ Robot!Init /\ masters = <<>>
  \/ firmware = "pump" /\ Pump!Init /\ masters = <<>>

Next ==
  /\ \/ firmware = "canopen" /\ CanOpen!Next
     \/ firmware = "robot" /\ Robot!Next /\ UNCHANGED masters
     \/ firmware = "pump" /\ Pump!Next /\ UNCHANGED masters
  /\ UNCHANGED firmware

Spec == Init /\ [][Next]_Sil

\* The CANopen node in OPERATIONAL, the valve's law, of the temperature the
\* firmware has decoded.
OperationalLaw == firmware = "canopen" => CanOpen!Abstract!OperationalLaw

\* Both valve controllers put a decision that stands, and the node its state,
\* on the bus within a period of the frame's timer and a step, as the frames
\* a test decodes.
Reported ==
  /\ firmware = "canopen" => CanOpen!Abstract!Reported
  /\ firmware = "pump" => Pump!ValveFollows

\* What the masters were told arrives, through the codec and the handlers.
CommandsArrive == firmware = "canopen" => CanOpen!CommandsArrive

\* With its codec and its masters, the CANopen example takes only steps of the
\* abstract node, whose frames are commands and temperatures.
ImplementsNode ==
  [][firmware = "canopen" =>
       CanOpen!Abstract!Next \/ UNCHANGED CanOpen!Abstract!vars]_Sil

\* The rover does what its newest speed, steering and stop ask for, each on its
\* own when a command is cut short, and limits its wheels.
RobotObeys == firmware = "robot" => Robot!Obeys /\ Robot!WheelsLimited
=============================================================================
