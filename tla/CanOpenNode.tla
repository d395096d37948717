----------------------------- MODULE CanOpenNode -----------------------------
(***************************************************************************)
(* The CANopen controller firmware, firmware/canopen-controller/src/lib.rs,*)
(* on the virtual bus.  An NMT master and a process sensor send frames at  *)
(* any time, in any order, with any content; the node's TPDO1 and          *)
(* heartbeat go out in its update, once a period, and reach the bus at the *)
(* end of the tick.                                                        *)
(*                                                                         *)
(* A temperature is "in" or "out" of the band 10..90 degrees that opens    *)
(* the valve; the initial 0.0 is "out".  A frame that cannot be decoded,   *)
(* or that addresses another node, is "ignored".                           *)
(***************************************************************************)
EXTENDS Integers

CONSTANTS
  StepUs,       (* step_us of the simulation                               *)
  TpdoPeriod,   (* period_us: 50 ms                                        *)
  HbPeriod,     (* heartbeat_us: 100 ms                                    *)
  MaxTime       (* bound on the clock                                      *)

VARIABLES
  time,
  pc,          (* "idle" before the update of a tick, "route" after it     *)
  node,        (* the firmware: state, temperature, open, nextTpdo, nextHb *)
  pushed,      (* pushed in this tick: valve, the TPDO1's value, and state,*)
               (* the heartbeat's; each {} or one value                    *)
  bus,         (* newest TPDO1 and heartbeat on the bus: valve, state      *)
  since        (* for the properties: when the node's open and its state,  *)
               (* respectively, last changed                               *)

vars == <<time, pc, node, pushed, bus, since>>

Temperatures == {"in", "out"}
States == {"PRE_OPERATIONAL", "OPERATIONAL", "STOPPED"}
Commands == {"START", "STOP", "PRE_OPERATIONAL", "ignored"}

InBand(temperature) == temperature = "in"

\* on_message of an NMT frame.
Nmt(command) ==
  CASE command = "START" ->
         [node EXCEPT !.state = "OPERATIONAL", !.open = InBand(node.temperature)]
    [] command = "STOP" -> [node EXCEPT !.state = "STOPPED"]
    [] command = "PRE_OPERATIONAL" -> [node EXCEPT !.state = "PRE_OPERATIONAL"]
    [] OTHER -> node

\* on_message of an RPDO1: the temperature is stored in every state.
Rpdo(temperature) ==
  IF node.state = "OPERATIONAL"
  THEN [node EXCEPT !.temperature = temperature, !.open = InBand(temperature)]
  ELSE [node EXCEPT !.temperature = temperature]

Hears(new) ==
  /\ pc \in {"idle", "route"}
  /\ node' = new
  /\ since' = [valve |-> IF new.open = node.open THEN since.valve ELSE time,
               state |-> IF new.state = node.state THEN since.state ELSE time]
  /\ UNCHANGED <<time, pc, pushed, bus>>

NmtFrame == \E command \in Commands : Hears(Nmt(command))
RpdoFrame == \E temperature \in Temperatures : Hears(Rpdo(temperature))

\* update: each frame when its own timer is due, in every NMT state.
Update ==
  /\ pc = "idle"
  /\ time < MaxTime
  /\ pushed' = [valve |-> IF time >= node.nextTpdo THEN {node.open} ELSE {},
                state |-> IF time >= node.nextHb THEN {node.state} ELSE {}]
  /\ node' = [node EXCEPT
       !.nextTpdo = IF time >= @ THEN time + TpdoPeriod ELSE @,
       !.nextHb = IF time >= @ THEN time + HbPeriod ELSE @]
  /\ pc' = "route"
  /\ UNCHANGED <<time, bus, since>>

NothingPushed == [valve |-> {}, state |-> {}]

EndTick ==
  /\ pc = "route"
  /\ bus' = [f \in {"valve", "state"} |->
              IF pushed[f] = {} THEN bus[f] ELSE CHOOSE v \in pushed[f] : TRUE]
  /\ pushed' = NothingPushed
  /\ time' = time + StepUs
  /\ pc' = "idle"
  /\ UNCHANGED <<node, since>>

Init ==
  /\ time = 0
  /\ pc = "idle"
  /\ node = [state |-> "PRE_OPERATIONAL", temperature |-> "out", open |-> FALSE,
             nextTpdo |-> 0, nextHb |-> 0]
  /\ pushed = NothingPushed
  /\ bus = [valve |-> FALSE, state |-> "PRE_OPERATIONAL"]
  /\ since = [valve |-> 0, state |-> 0]

Next == NmtFrame \/ RpdoFrame \/ Update \/ EndTick

Spec == Init /\ [][Next]_vars

-----------------------------------------------------------------------------
(* Properties.                                                             *)

\* In OPERATIONAL the valve follows the law of the newest temperature, also the
\* one that came in while the node was stopped or pre-operational.
OperationalLaw == node.state = "OPERATIONAL" => (node.open <=> InBand(node.temperature))

Kept(period) == StepUs * ((period + StepUs - 1) \div StepUs)

\* A valve decision that stands is on the bus after one TPDO period and a step,
\* and a state that stands in the heartbeat after one heartbeat period and a
\* step, although one update serves both timers.
Reported ==
  pc = "idle" =>
    /\ time - since.valve >= Kept(TpdoPeriod) + StepUs => bus.valve = node.open
    /\ time - since.state >= Kept(HbPeriod) + StepUs => bus.state = node.state

\* What the firmware's documentation says (lib.rs:40): the valve is open only
\* while the node is OPERATIONAL.
OpenOnlyOperational == node.open => node.state = "OPERATIONAL"
=============================================================================
