------------------------------- MODULE RestBus -------------------------------
(***************************************************************************)
(* The rest-bus target, crates/embrig-test/src/target.rs: a simulation     *)
(* whose clock chases the clock of a real CAN bus.  drive() alternates     *)
(* between the socket and the simulation; the host may be held up between  *)
(* any two of its steps, and the device under test sends when it likes.    *)
(* The socket also receives what it sends (recv_own_msgs).                 *)
(*                                                                         *)
(* The simulation is reduced to one node with a periodic frame; frames are *)
(* [src, n]: the n-th frame of the simulated node or of the device.        *)
(***************************************************************************)
EXTENDS Integers, Sequences, FiniteSets, SequencesExt

CONSTANTS
  PollUs,     (* POLL_US                                                   *)
  StepUs,     (* step_us of the simulation                                 *)
  Period,     (* period of the simulated node                              *)
  Durations,  (* what drive() is called with                               *)
  MaxNow,     (* bound on the bus clock                                    *)
  MaxDevice   (* bound on the frames of the device                         *)

VARIABLES
  now,       (* elapsed_us: the bus clock since the target was built       *)
  pc,        (* "idle", or where drive() is                                *)
  deadline,  (* of the current drive()                                     *)
  waitEnd,   (* when the current recv() gives up                           *)
  goal,      (* the argument of the current run_until                      *)
  sim,       (* the simulation's clock                                     *)
  next,      (* when the node's next frame is due                          *)
  sent,      (* how many frames the node has emitted                       *)
  device,    (* how many frames the device has sent                        *)
  latest,    (* recorder.last_message of the node's id: 0 for none         *)
  emitted,   (* records behind the watermark that are to be transmitted    *)
  socket,    (* frames the kernel holds for recv()                         *)
  wire,      (* for the properties: all frames on the bus, with the time   *)
  heard      (* for the properties: all frames injected                    *)

vars == <<now, pc, deadline, waitEnd, goal, sim, next, sent, device, latest,
          emitted, socket, wire, heard>>

engine == <<sim, next, sent>>
bus == <<device, socket, wire>>

Lesser(a, b) == IF a <= b THEN a ELSE b

\* What anybody sends is on the wire and in the target's own socket.
OnBus(f) ==
  /\ wire' = Append(wire, [frame |-> f, at |-> now])
  /\ socket' = Append(socket, f)

-----------------------------------------------------------------------------
(* The surroundings.                                                       *)

Elapse ==
  /\ now < MaxNow
  /\ now' = now + 1
  /\ UNCHANGED <<pc, deadline, waitEnd, goal, engine, bus, latest, emitted, heard>>

\* Also the test's own send step, which goes to the bus and not to the simulation.
DeviceSends ==
  /\ device < MaxDevice
  /\ device' = device + 1
  /\ OnBus([src |-> "device", n |-> device + 1])
  /\ UNCHANGED <<now, pc, deadline, waitEnd, goal, engine, latest, emitted, heard>>

-----------------------------------------------------------------------------
(* drive().                                                                *)

\* wait(d) and poll(); poll drives for POLL_US.
Drive(d) ==
  /\ pc = "idle"
  /\ now + d <= MaxNow
  /\ deadline' = now + d
  /\ pc' = "loop"
  /\ UNCHANGED <<now, waitEnd, goal, engine, bus, latest, emitted, heard>>

\* while elapsed_us() < deadline; recv waits for min(remaining, POLL_US).
Loop ==
  /\ pc = "loop"
  /\ IF now < deadline
     THEN /\ waitEnd' = Lesser(deadline, now + PollUs)
          /\ pc' = "recv"
     ELSE pc' = "idle" /\ UNCHANGED waitEnd
  /\ UNCHANGED <<now, deadline, goal, engine, bus, latest, emitted, heard>>

\* Mutant: the watermark is taken before the received frame is injected.
RecvRetransmits ==
  /\ pc = "recv"
  /\ socket # <<>>
  /\ socket' = Tail(socket)
  /\ heard' = Append(heard, Head(socket))
  /\ latest' = IF Head(socket).src = "node" THEN Head(socket).n ELSE latest
  /\ emitted' = <<Head(socket)>>
  /\ pc' = "sync"
  /\ UNCHANGED <<now, deadline, waitEnd, goal, engine, device, wire>>

\* recv() returns the oldest frame and inject() records it.
Recv ==
  /\ pc = "recv"
  /\ socket # <<>>
  /\ socket' = Tail(socket)
  /\ heard' = Append(heard, Head(socket))
  /\ latest' = IF Head(socket).src = "node" THEN Head(socket).n ELSE latest
  /\ pc' = "sync"
  /\ UNCHANGED <<now, deadline, waitEnd, goal, engine, device, wire, emitted>>

RecvTimesOut ==
  /\ pc = "recv"
  /\ socket = <<>>
  /\ now >= waitEnd
  /\ pc' = "sync"
  /\ UNCHANGED <<now, deadline, waitEnd, goal, engine, bus, latest, emitted, heard>>

\* Mutant: the simulation is run to the end of the drive at once.
SyncAhead ==
  /\ pc = "sync"
  /\ goal' = deadline
  /\ pc' = "run"
  /\ UNCHANGED <<now, deadline, waitEnd, engine, bus, latest, emitted, heard>>

\* The watermark, and the bus clock as run_until's argument.
Sync ==
  /\ pc = "sync"
  /\ goal' = now
  /\ pc' = "run"
  /\ UNCHANGED <<now, deadline, waitEnd, engine, bus, latest, emitted, heard>>

\* One tick of run_until: the node's frame, when due, is recorded.
SimTick ==
  /\ pc = "run"
  /\ sim < goal
  /\ sim' = sim + StepUs
  /\ IF sim >= next
     THEN /\ next' = sim + Period
          /\ sent' = sent + 1
          /\ latest' = sent + 1
          /\ emitted' = Append(emitted, [src |-> "node", n |-> sent + 1])
     ELSE UNCHANGED <<next, sent, latest, emitted>>
  /\ UNCHANGED <<now, pc, deadline, waitEnd, goal, bus, heard>>

RunDone ==
  /\ pc = "run"
  /\ sim >= goal
  /\ pc' = "send"
  /\ UNCHANGED <<now, deadline, waitEnd, goal, engine, bus, latest, emitted, heard>>

\* Mutant: the newest record is sent first.
SendNewestFirst ==
  /\ pc = "send"
  /\ emitted # <<>>
  /\ OnBus(Last(emitted))
  /\ emitted' = Front(emitted)
  /\ UNCHANGED <<now, pc, deadline, waitEnd, goal, engine, device, latest, heard>>

Send ==
  /\ pc = "send"
  /\ emitted # <<>>
  /\ OnBus(Head(emitted))
  /\ emitted' = Tail(emitted)
  /\ UNCHANGED <<now, pc, deadline, waitEnd, goal, engine, device, latest, heard>>

SendDone ==
  /\ pc = "send"
  /\ emitted = <<>>
  /\ pc' = "loop"
  /\ UNCHANGED <<now, deadline, waitEnd, goal, engine, bus, latest, emitted, heard>>

-----------------------------------------------------------------------------

Init ==
  /\ now = 0
  /\ pc = "idle"
  /\ deadline = 0 /\ waitEnd = 0 /\ goal = 0
  /\ sim = 0 /\ next = 0 /\ sent = 0
  /\ device = 0
  /\ latest = 0
  /\ emitted = <<>> /\ socket = <<>> /\ wire = <<>> /\ heard = <<>>

\* reset() builds everything anew, the socket with it.
Reset ==
  /\ pc = "idle"
  /\ now' = 0
  /\ pc' = "idle"
  /\ deadline' = 0 /\ waitEnd' = 0 /\ goal' = 0
  /\ sim' = 0 /\ next' = 0 /\ sent' = 0
  /\ device' = 0
  /\ latest' = 0
  /\ emitted' = <<>> /\ socket' = <<>> /\ wire' = <<>> /\ heard' = <<>>

DriveStep == Loop \/ Recv \/ RecvTimesOut \/ Sync \/ SimTick \/ RunDone \/ Send \/ SendDone

Next == Elapse \/ DeviceSends \/ (\E d \in Durations : Drive(d)) \/ DriveStep \/ Reset

Spec == Init /\ [][Next]_vars

-----------------------------------------------------------------------------
(* Properties.                                                             *)

OnWire == [i \in DOMAIN wire |-> wire[i].frame]

\* How many of the first k frames on the wire are the node's.
NodeFrames(k) == Cardinality({i \in 1 .. k : wire[i].frame.src = "node"})

\* Every frame of the simulated node goes on the wire once, in order (the k-th
\* of them is its k-th frame, and the emitted ones continue the count), and what
\* comes in from the wire is never sent out again: the watermark keeps received
\* frames, the node's own echoes among them, from going round for ever.  And
\* every frame on the bus, the device's and the target's own, is injected into
\* the simulation once and in the order of the bus, or still waits in the socket.
EveryFrameOnce ==
  /\ \A i \in DOMAIN wire : wire[i].frame.src = "node" => wire[i].frame.n = NodeFrames(i)
  /\ \A i \in DOMAIN emitted :
       emitted[i] = [src |-> "node", n |-> NodeFrames(Len(wire)) + i]
  /\ sent = NodeFrames(Len(wire)) + Len(emitted)
  /\ heard \o socket = OnWire

\* The simulation never runs ahead: a frame reaches the wire after its time,
\* and no earlier than one period after the one before it, by the simulation's
\* clock; a host that was held up catches up and omits none.
Paced ==
  /\ sim < now + StepUs
  /\ \A i \in DOMAIN wire :
       wire[i].frame.src = "node" => wire[i].at > (wire[i].frame.n - 1) * Period
  /\ Period % StepUs = 0 => sent = (sim + Period - 1) \div Period

\* What a poll of the node's own id is told is the newest frame, unless the
\* echo of it is still to be read: the older frames that come back after a
\* stall replace it only until then.
NewestOnceDrained ==
  pc = "idle" /\ latest # sent =>
    \E m \in Range(socket) : m.src = "node" /\ m.n = sent
=============================================================================
