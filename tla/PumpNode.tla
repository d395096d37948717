------------------------------- MODULE PumpNode ------------------------------
(***************************************************************************)
(* The pump controller, firmware/controller/src/lib.rs, on the virtual bus.*)
(* A temperature is "in" or "out" of the band 10..90 degrees that opens the*)
(* valve; the initial 0.0 is "out".                                        *)
(***************************************************************************)
EXTENDS Integers

CONSTANTS
  StepUs,      (* step_us of the simulation                                *)
  Period,      (* period_us: 50 ms                                         *)
  MaxTime      (* bound on the clock                                       *)

VARIABLES
  time,
  pc,          (* "idle" before the update of a tick, "route" after it     *)
  node,        (* the firmware: temperature, open, nextTx                  *)
  pushed,      (* a ValveCommand pushed in this tick: {} or one value      *)
  bus,         (* valve_open of the newest ValveCommand                    *)
  since        (* for the properties: when the band was last entered or    *)
               (* left by the temperature on the bus, and which it is      *)

vars == <<time, pc, node, pushed, bus, since>>

Temperatures == {"in", "out"}

\* on_message: a temperature decides at once; other frames, and those that
\* cannot be decoded, change nothing.
SensorInput ==
  /\ pc \in {"idle", "route"}
  /\ \E temperature \in Temperatures :
       /\ node' = [node EXCEPT !.temperature = temperature, !.open = (temperature = "in")]
       /\ since' = IF temperature = since.temperature THEN since
                   ELSE [temperature |-> temperature, at |-> time]
  /\ UNCHANGED <<time, pc, pushed, bus>>

\* update.
Update ==
  /\ pc = "idle"
  /\ time < MaxTime
  /\ IF time >= node.nextTx
     THEN pushed' = {node.open} /\ node' = [node EXCEPT !.nextTx = time + Period]
     ELSE pushed' = {} /\ UNCHANGED node
  /\ pc' = "route"
  /\ UNCHANGED <<time, bus, since>>

EndTick ==
  /\ pc = "route"
  /\ bus' = IF pushed = {} THEN bus ELSE CHOOSE v \in pushed : TRUE
  /\ pushed' = {}
  /\ time' = time + StepUs
  /\ pc' = "idle"
  /\ UNCHANGED <<node, since>>

Init ==
  /\ time = 0
  /\ pc = "idle"
  /\ node = [temperature |-> "out", open |-> FALSE, nextTx |-> 0]
  /\ pushed = {}
  /\ bus = FALSE
  /\ since = [temperature |-> "out", at |-> 0]

Next == SensorInput \/ Update \/ EndTick

Spec == Init /\ [][Next]_vars

-----------------------------------------------------------------------------

Kept(period) == StepUs * ((period + StepUs - 1) \div StepUs)

\* A temperature that has stayed in, or out of, the band for a period and a
\* step is what the valve on the bus follows.
ValveFollows ==
  pc = "idle" /\ time - since.at >= Kept(Period) + StepUs =>
    (bus <=> since.temperature = "in")
=============================================================================
