----------------------------- MODULE Powertrain -----------------------------
(***************************************************************************)
(* The reference ECUs of the EV powertrain, embrig-models/src/ecus.rs,     *)
(* stepped by the network engine in the order of the example vehicle:      *)
(* charger, vehicle controller (VCU), motor.  In a tick every ECU updates, *)
(* then what they pushed is delivered; a drop fault may take a frame away. *)
(*                                                                         *)
(* The battery, brake, driver and charge-request frames come from config   *)
(* nodes, from fault-delayed frames and from the test's own sends: any     *)
(* number of them, before the updates of a tick or while it is routed.     *)
(* A battery frame that is too short for a signal leaves what the ECUs     *)
(* know of that signal as it was.                                          *)
(***************************************************************************)
EXTENDS Integers, Sequences

CONSTANTS
  StepUs,         (* step_us of the simulation                             *)
  ChargerPeriod,  (* period of 0x210 ChargeStatus                          *)
  VcuPeriod,      (* period of 0x220 MotorEnable                           *)
  MotorPeriod,    (* period of 0x230 MotorStatus                           *)
  ChargerLimit,   (* 500 ms: the charger's battery timeout                 *)
  VcuLimit,       (* 300 ms: the VCU's battery timeout                     *)
  Droppable,      (* ids a drop fault may hit: subset of {"status", "enable"} *)
  None,           (* Option::None                                          *)
  Unread,         (* a signal that the frame is too short for              *)
  MaxTime         (* bound on the clock                                    *)

ASSUME PowertrainAssumption ==
  /\ {StepUs, ChargerPeriod, VcuPeriod, MotorPeriod} \subseteq Nat \ {0}
  /\ {ChargerLimit, VcuLimit, MaxTime} \subseteq Nat
  /\ Droppable \subseteq {"status", "enable"}
  /\ None \notin Nat /\ None \notin BOOLEAN /\ None \notin {"READY", "FAULT", "RUNNING"}
  /\ Unread \notin {"READY", "FAULT", None} /\ Unread \notin BOOLEAN

VARIABLES
  time,
  pc,        (* "idle", the ECU whose update is next, or "route"           *)
  charger,   (* the Charger: state, request, lastBattery, full, next       *)
  vcu,       (* the VehicleController's fields                             *)
  motor,     (* the Motor: enabled, next; reported is its last status      *)
  outbound,  (* frames pushed in this tick and not routed yet              *)
  since,     (* for the properties: when Permitted last changed            *)
  lost       (* for the properties: a drop fault has hit                   *)

vars == <<time, pc, charger, vcu, motor, outbound, since, lost>>

ChargerStates == {"IDLE", "CHARGING", "COMPLETE", "FAULT"}
BatteryStates == {"READY", "FAULT", None}

\* The voltage stands in front of the state of charge in the frame, and that
\* in front of the state: `over` is voltage > 450, `full` is soc >= 100.  A
\* state without a symbol in the value table is None.
BatteryFrames ==
  [id : {"battery"}, state : BatteryStates, over : BOOLEAN, full : BOOLEAN]
    \cup [id : {"battery"}, state : {Unread}, over : BOOLEAN, full : BOOLEAN \cup {Unread}]
    \cup [id : {"battery"}, state : {Unread}, over : {Unread}, full : {Unread}]

\* What the bus may carry from the stimulus nodes.
Stimuli == BatteryFrames \cup [id : {"brake", "driver", "request"}, on : BOOLEAN]

Heard(new, old) == IF new = Unread THEN old ELSE new

Fresh(last, limit) == last # None /\ time - last <= limit

-----------------------------------------------------------------------------
(* When the motor may run, as the module documentation of the VCU lists it *)
(* (ecus.rs:138-144), with the charger's own state and not the VCU's copy. *)

Permitted ==
  /\ vcu.battery = "READY"
  /\ vcu.over = FALSE
  /\ Fresh(vcu.lastBattery, VcuLimit)
  /\ vcu.drive = TRUE
  /\ vcu.brake = FALSE
  /\ charger.state # "FAULT"

TrackPermission ==
  since' = IF Permitted' = Permitted THEN since ELSE time'

-----------------------------------------------------------------------------
(* on_message of the three ECUs.                                           *)

ChargerHears(f) ==
  CASE f.id = "request" -> [charger EXCEPT !.request = f.on]
    [] f.id = "battery" -> [charger EXCEPT !.lastBattery = time,
                                           !.full = Heard(f.full, @)]
    [] OTHER -> charger

\* Mutant: once the charger has faulted the VCU never believes it again.
VcuHearsFaultOnce(f) ==
  CASE f.id = "battery" -> [vcu EXCEPT !.lastBattery = time,
                                       !.battery = Heard(f.state, @),
                                       !.over = Heard(f.over, @)]
    [] f.id = "brake" -> [vcu EXCEPT !.brake = f.on]
    [] f.id = "driver" -> [vcu EXCEPT !.drive = f.on]
    [] f.id = "status" -> [vcu EXCEPT !.charger = IF @ = "FAULT" THEN @ ELSE f.state]
    [] OTHER -> vcu

VcuHears(f) ==
  CASE f.id = "battery" -> [vcu EXCEPT !.lastBattery = time,
                                       !.battery = Heard(f.state, @),
                                       !.over = Heard(f.over, @)]
    [] f.id = "brake" -> [vcu EXCEPT !.brake = f.on]
    [] f.id = "driver" -> [vcu EXCEPT !.drive = f.on]
    [] f.id = "status" -> [vcu EXCEPT !.charger = f.state]
    [] OTHER -> vcu

MotorHears(f) ==
  IF f.id = "enable" THEN [motor EXCEPT !.enabled = f.on] ELSE motor

Deliver(f) ==
  /\ charger' = ChargerHears(f)
  /\ vcu' = VcuHears(f)
  /\ motor' = MotorHears(f)

-----------------------------------------------------------------------------
(* One tick.                                                               *)

Stimulus(f) ==
  /\ pc \in {"idle", "route"}
  /\ Deliver(f)
  /\ UNCHANGED <<time, pc, outbound, lost>>
  /\ TrackPermission

StartTick ==
  /\ pc = "idle"
  /\ time < MaxTime
  /\ pc' = "charger"
  /\ UNCHANGED <<time, charger, vcu, motor, outbound, since, lost>>

ChargerState ==
  IF ~charger.request THEN "IDLE"
  ELSE IF ~Fresh(charger.lastBattery, ChargerLimit) THEN "FAULT"
  ELSE IF charger.full = TRUE THEN "COMPLETE" ELSE "CHARGING"

Due(ecu) == time >= ecu.next

\* Mutant: the charger updates only when its frame is due.
ChargerUpdateWhenDue ==
  /\ pc = "charger"
  /\ LET s == ChargerState
     IN  IF Due(charger)
         THEN /\ charger' = [charger EXCEPT !.state = s, !.next = time + ChargerPeriod]
              /\ outbound' = Append(outbound, [id |-> "status", state |-> s])
         ELSE UNCHANGED <<charger, outbound>>
  /\ pc' = "vcu"
  /\ UNCHANGED <<time, vcu, motor, lost>>
  /\ TrackPermission

\* The state follows the inputs in every tick, the frame goes out once a period.
ChargerUpdate ==
  /\ pc = "charger"
  /\ LET s == ChargerState
     IN  IF Due(charger)
         THEN /\ charger' = [charger EXCEPT !.state = s, !.next = time + ChargerPeriod]
              /\ outbound' = Append(outbound, [id |-> "status", state |-> s])
         ELSE /\ charger' = [charger EXCEPT !.state = s]
              /\ UNCHANGED outbound
  /\ pc' = "vcu"
  /\ UNCHANGED <<time, vcu, motor, lost>>
  /\ TrackPermission

\* Mutant: the battery timeout is left out of the decision.
EnableStale ==
  /\ vcu.battery = "READY"
  /\ vcu.over = FALSE
  /\ vcu.drive = TRUE
  /\ vcu.brake = FALSE
  /\ vcu.charger # "FAULT"

\* battery_ok && driver_ok && charger_ok.
Enable ==
  /\ vcu.battery = "READY"
  /\ vcu.over = FALSE
  /\ Fresh(vcu.lastBattery, VcuLimit)
  /\ vcu.drive = TRUE
  /\ vcu.brake = FALSE
  /\ vcu.charger # "FAULT"

VcuUpdate ==
  /\ pc = "vcu"
  /\ IF Due(vcu)
     THEN /\ vcu' = [vcu EXCEPT !.next = time + VcuPeriod]
          /\ outbound' = Append(outbound, [id |-> "enable", on |-> Enable])
     ELSE UNCHANGED <<vcu, outbound>>
  /\ pc' = "motor"
  /\ UNCHANGED <<time, charger, motor, since, lost>>

\* The motor's own status frame has no subscriber among these ECUs.
MotorUpdate ==
  /\ pc = "motor"
  /\ motor' = IF Due(motor)
              THEN [motor EXCEPT !.reported = IF motor.enabled THEN "RUNNING" ELSE "SAFE",
                                 !.next = time + MotorPeriod]
              ELSE motor
  /\ pc' = "route"
  /\ UNCHANGED <<time, charger, vcu, outbound, since, lost>>

Route ==
  /\ pc = "route"
  /\ outbound # <<>>
  /\ outbound' = Tail(outbound)
  /\ \/ Deliver(Head(outbound)) /\ UNCHANGED lost
     \/ /\ Head(outbound).id \in Droppable
        /\ lost' = TRUE
        /\ UNCHANGED <<charger, vcu, motor>>
  /\ UNCHANGED <<time, pc, since>>

EndTick ==
  /\ pc = "route"
  /\ outbound = <<>>
  /\ time' = time + StepUs
  /\ pc' = "idle"
  /\ UNCHANGED <<charger, vcu, motor, outbound, lost>>
  /\ TrackPermission

Init ==
  /\ time = 0
  /\ pc = "idle"
  /\ charger = [state |-> "IDLE", request |-> FALSE, lastBattery |-> None,
                full |-> None, next |-> 0]
  /\ vcu = [battery |-> None, over |-> None, lastBattery |-> None, brake |-> None,
            drive |-> None, charger |-> None, next |-> 0]
  /\ motor = [enabled |-> FALSE, next |-> 0, reported |-> None]
  /\ outbound = <<>>
  /\ since = 0
  /\ lost = FALSE

Next ==
  \/ \E f \in Stimuli : Stimulus(f)
  \/ StartTick \/ ChargerUpdate \/ VcuUpdate \/ MotorUpdate \/ Route \/ EndTick

Spec == Init /\ [][Next]_vars

-----------------------------------------------------------------------------
(* Properties.                                                             *)

\* A period as the engine keeps it: a frame leaves at the first tick that is due.
Kept(period) == StepUs * ((period + StepUs - 1) \div StepUs)

\* Once driving stops being permitted, for whatever reason (brake, driver,
\* battery state, over-voltage, battery silence, charger fault) and stays so,
\* the motor reports RUNNING for at most one VCU period, one motor period and a
\* step, provided no frame was dropped.
MotorStopsInTime ==
  (pc = "idle" /\ ~lost /\ ~Permitted
     /\ time - since >= Kept(VcuPeriod) + Kept(MotorPeriod) + StepUs)
  => motor.reported # "RUNNING"

\* Once driving is permitted and stays so, the motor runs after one period of
\* each of the three ECUs and a step: no fault once seen is remembered longer
\* than the charger takes to revoke it.
MotorResumesInTime ==
  (pc = "idle" /\ ~lost /\ Permitted
     /\ time - since >= Kept(ChargerPeriod) + Kept(VcuPeriod) + Kept(MotorPeriod) + StepUs)
  => motor.reported = "RUNNING"

\* The two battery timeouts agree: whenever the charger faults because the
\* battery is silent, the VCU has already called the battery stale, so the loss
\* of the charger's status frame cannot hide that fault from the VCU.
ChargerFaultNeverAlone ==
  pc = "vcu" /\ charger.state = "FAULT" => ~Fresh(vcu.lastBattery, VcuLimit)
=============================================================================
