------------------------------ MODULE RobotNode ------------------------------
(***************************************************************************)
(* The rover's motion controller, firmware/robot/src/lib.rs, on the virtual*)
(* bus.  A joystick and an emergency stop send frames at any time, in any  *)
(* order and of any length; the wheel speeds and the status word go out    *)
(* together, once a period, and reach the bus at the end of the tick.      *)
(*                                                                         *)
(* Speeds and steering are in raw units of 0.01.  The steering values are  *)
(* even, so that half of one is a whole number of the wheel speed's unit   *)
(* and encoding rounds nothing.                                            *)
(***************************************************************************)
EXTENDS Integers

CONSTANTS
  Speeds, Steers,   (* what a DriveCommand may carry                       *)
  MaxSpeed,         (* MAX_SPEED: 150                                      *)
  WheelMax,         (* WHEEL_MAX: 300                                      *)
  StepUs,           (* step_us of the simulation                           *)
  Period,           (* period_us: 50 ms                                    *)
  MaxTime           (* bound on the clock                                  *)

VARIABLES
  time,
  pc,          (* "idle" before the update of a tick, "route" after it     *)
  node,        (* the firmware: speed, steer, estop, nextTx                *)
  pushed,      (* the frames pushed in this tick: {} or one Behaviour      *)
  bus,         (* newest MotorCommand and RobotStatus: state, left, right  *)
  since        (* for the properties: the newest speed, steering and stop  *)
               (* that were on the bus, and when one of them last changed  *)

vars == <<time, pc, node, pushed, bus, since>>

Magnitude(v) == IF v < 0 THEN -v ELSE v

\* clamp_speed.
Clamp(v) == IF v > WheelMax THEN WheelMax ELSE IF v < -WheelMax THEN -WheelMax ELSE v

Still(state) == [state |-> state, left |-> 0, right |-> 0]

\* behaviour(): stop, then over-speed, then idle, then drive.
Behaviour(n) ==
  CASE n.estop -> Still("ESTOP")
    [] ~n.estop /\ Magnitude(n.speed) > MaxSpeed -> Still("FAULT")
    [] ~n.estop /\ n.speed = 0 /\ n.steer = 0 -> Still("READY")
    [] OTHER -> [state |-> "DRIVING",
                 left |-> Clamp(n.speed - n.steer \div 2),
                 right |-> Clamp(n.speed + n.steer \div 2)]

\* A frame was on the bus: n is the firmware after it, and the other arguments
\* the newest values any frame has carried.
Hears(n, speed, steer, estop) ==
  /\ pc \in {"idle", "route"}
  /\ node' = n
  /\ since' = [speed |-> speed, steer |-> steer, estop |-> estop,
               at |-> IF <<speed, steer, estop>> = <<since.speed, since.steer, since.estop>>
                      THEN since.at ELSE time]
  /\ UNCHANGED <<time, pc, pushed, bus>>

\* Mutant: a command that is cut short is dropped as a whole.
DriveCommandWhole ==
  \E speed \in Speeds, steer \in Steers :
    \/ Hears(node, speed, since.steer, since.estop)
    \/ Hears([node EXCEPT !.speed = speed, !.steer = steer], speed, steer, since.estop)

\* on_message of a DriveCommand: each signal is decoded on its own and kept as
\* it was when the frame is too short for it.  Two bytes hold the speed only.
DriveCommand ==
  \E speed \in Speeds, steer \in Steers :
    \/ Hears([node EXCEPT !.speed = speed], speed, since.steer, since.estop)
    \/ Hears([node EXCEPT !.speed = speed, !.steer = steer], speed, steer, since.estop)

\* on_message of an EStop frame.
EStop ==
  \E pressed \in BOOLEAN :
    Hears([node EXCEPT !.estop = pressed], since.speed, since.steer, pressed)

\* A frame with another id, or too short for its first signal.
Ignored == Hears(node, since.speed, since.steer, since.estop)

\* update.
Update ==
  /\ pc = "idle"
  /\ time < MaxTime
  /\ IF time < node.nextTx
     THEN pushed' = {} /\ UNCHANGED node
     ELSE pushed' = {Behaviour(node)} /\ node' = [node EXCEPT !.nextTx = time + Period]
  /\ pc' = "route"
  /\ UNCHANGED <<time, bus, since>>

EndTick ==
  /\ pc = "route"
  /\ bus' = IF pushed = {} THEN bus ELSE CHOOSE b \in pushed : TRUE
  /\ pushed' = {}
  /\ time' = time + StepUs
  /\ pc' = "idle"
  /\ UNCHANGED <<node, since>>

Init ==
  /\ time = 0
  /\ pc = "idle"
  /\ node = [speed |-> 0, steer |-> 0, estop |-> FALSE, nextTx |-> 0]
  /\ pushed = {}
  /\ bus = Still("OFF")
  /\ since = [speed |-> 0, steer |-> 0, estop |-> FALSE, at |-> 0]

Next == DriveCommand \/ EStop \/ Ignored \/ Update \/ EndTick

Spec == Init /\ [][Next]_vars

-----------------------------------------------------------------------------
(* Properties.                                                             *)

Kept(period) == StepUs * ((period + StepUs - 1) \div StepUs)

\* The speed a wheel can turn at that is nearest to half of `doubled`.
Nearest(wheel, doubled) ==
  /\ wheel \in -WheelMax .. WheelMax
  /\ \A v \in -WheelMax .. WheelMax :
       Magnitude(2 * wheel - doubled) <= Magnitude(2 * v - doubled)

\* Commands that have stood for a period and a step decide what the bus says,
\* whichever frames brought them, in whichever order, and also those that came
\* in while the stop was pressed (lib.rs:12).  The newest speed, the newest
\* steering and the newest stop decide, each on its own, when a command that was
\* cut short has brought one without the other.  A pressed stop, a speed above
\* the limit and rest show as such and hold the wheels; with any other command
\* the rover drives: half the steering is between each wheel and the speed, as
\* far as the wheel can turn that fast.
Obeys ==
  pc = "idle" /\ time - since.at >= Kept(Period) + StepUs =>
    LET tooFast == Magnitude(since.speed) > MaxSpeed
        resting == since.speed = 0 /\ since.steer = 0
    IN  /\ bus.state = "ESTOP" <=> since.estop
        /\ bus.state = "FAULT" <=> ~since.estop /\ tooFast
        /\ bus.state = "READY" <=> ~since.estop /\ resting
        /\ bus.state = "DRIVING" <=> ~since.estop /\ ~tooFast /\ ~resting
        /\ bus.state # "DRIVING" => bus.left = 0 /\ bus.right = 0
        /\ bus.state = "DRIVING" =>
             /\ Nearest(bus.left, 2 * since.speed - since.steer)
             /\ Nearest(bus.right, 2 * since.speed + since.steer)

\* The wheel speeds on the bus are within WHEEL_MAX in both directions, however
\* hard the joystick steers.
WheelsLimited == Magnitude(bus.left) <= WheelMax /\ Magnitude(bus.right) <= WheelMax
=============================================================================
