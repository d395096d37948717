----------------------------- MODULE MCLiveLink -----------------------------
(* The three targets on a live link, one at a time: the hardware targets on*)
(* CAN and on UDP, and the rest-bus target, with one host's clock.         *)
EXTENDS Integers, Sequences

CONSTANTS
  Keys, Host, HostPollUs, Waits, HostMaxNow, MaxMessages, MaxResets, \* HardwareTargets
  PollUs, StepUs, Period, Durations, MaxNow, MaxDevice               \* RestBus

ASSUME LiveLinkAssumption ==
  /\ Host \in Keys
  /\ {HostPollUs, PollUs, StepUs, Period} \subseteq Nat \ {0}
  /\ Waits \cup Durations \subseteq Nat
  /\ {HostMaxNow, MaxNow, MaxMessages, MaxResets, MaxDevice} \subseteq Nat

VARIABLES
  link,                                        \* "can", "udp" or "rest"
  now, pc, deadline, socket,                   \* of both
  origin, asked, queue, resets, arrived, returned, passedBy, cleared, turns,
  waitEnd, goal, sim, next, sent, device, latest, emitted, wire, heard

hardware == <<origin, asked, queue, resets, arrived, returned, passedBy, cleared, turns>>
simulated == <<waitEnd, goal, sim, next, sent, device, latest, emitted, wire, heard>>
vars == <<link, now, pc, deadline, socket, hardware, simulated>>

Hardware == INSTANCE HardwareTargets WITH PollUs <- HostPollUs, MaxNow <- HostMaxNow
Rest == INSTANCE RestBus

-----------------------------------------------------------------------------

HardwareInit ==
  /\ Hardware!Init
  /\ waitEnd = 0 /\ goal = 0 /\ sim = 0 /\ next = 0 /\ sent = 0 /\ device = 0
  /\ latest = 0 /\ emitted = <<>> /\ wire = <<>> /\ heard = <<>>

RestInit ==
  /\ link = "rest"
  /\ Rest!Init
  /\ origin = 0 /\ asked = Host /\ queue = <<>> /\ resets = 0 /\ arrived = 0
  /\ returned = <<>> /\ passedBy = {} /\ cleared = {} /\ turns = <<>>

OnHardware(A) == link # "rest" /\ A /\ UNCHANGED simulated
OnRest(A) == link = "rest" /\ A /\ UNCHANGED <<link, hardware>>

Next == OnHardware(Hardware!Next) \/ OnRest(Rest!Next)
Elapse == OnHardware(Hardware!Elapse) \/ OnRest(Rest!Elapse)
Step == OnHardware(Hardware!Working) \/ OnRest(Rest!DriveStep)

(* Time passes, and a call that can go on does.                            *)
FairSpec ==
  /\ HardwareInit \/ RestInit
  /\ [][Next]_vars
  /\ WF_vars(Elapse) /\ WF_vars(Step)

-----------------------------------------------------------------------------

\* On the hardware targets a message is in one place and returned in order.
EveryMessageInOnePlace == link # "rest" => Hardware!EveryMessageInOnePlace

\* On the hardware targets a message is reached by the poll whose turn it is.
ReachedInTurn == link # "rest" => Hardware!ReachedInTurn

\* On the rest-bus target every frame crosses once in each direction.
EveryFrameOnce == link = "rest" => Rest!EveryFrameOnce

\* The rest-bus simulation keeps the pace of the bus.
Paced == link = "rest" => Rest!Paced

\* The rest-bus recorder's newest frame is the newest once echoes are read.
NewestOnceDrained == link = "rest" => Rest!NewestOnceDrained

\* Every poll, wait and drive ends, on a silent link as under steady traffic.
CallReturns == pc # "idle" ~> pc = "idle"
=============================================================================
