--------------------------- MODULE HardwareTargets ---------------------------
(***************************************************************************)
(* The targets on a live link: HardwareTarget on SocketCAN                 *)
(* (crates/embrig-test/src/target.rs) and UdpHardwareTarget on a bound UDP *)
(* socket (udp.rs).  What the device sends waits in the kernel's socket    *)
(* until a poll takes it; the host may be held up between any two steps.   *)
(*                                                                         *)
(* A message is [n, key, at]: the n-th that arrived, its CAN id or its     *)
(* destination endpoint, and when.  A CAN frame that is no data frame has  *)
(* a key nobody asks for.                                                  *)
(***************************************************************************)
EXTENDS Integers, Sequences, FiniteSets, SequencesExt

CONSTANTS
  Keys,        (* ids or endpoints                                         *)
  Host,        (* the endpoint the UDP socket is bound to                  *)
  PollUs,      (* POLL_US                                                  *)
  Waits,       (* what wait() is called with                               *)
  MaxNow,      (* bound on the host's clock                                *)
  MaxMessages, (* bound on the messages                                    *)
  MaxResets    (* bound on reset()                                         *)

VARIABLES
  link,      (* "can" or "udp"                                             *)
  now,       (* the host's clock                                           *)
  origin,    (* what elapsed_us is counted from                            *)
  pc,        (* "idle", "look", "recv" or "sleep"                          *)
  asked,     (* the key of the poll                                        *)
  deadline,  (* of the poll or the wait                                    *)
  socket,    (* messages the kernel holds                                  *)
  queue,     (* UdpHardwareTarget::queue                                   *)
  resets,    (* how often reset() was called                               *)
  \* For the properties.
  arrived,   (* how many messages have arrived                             *)
  returned,  (* messages that polls returned, in order                     *)
  passedBy,  (* messages a poll took and did not return                    *)
  cleared,   (* messages reset() threw away                                *)
  turns      (* by message: how many polls may still go by before its own  *)

call == <<pc, asked, deadline>>
history == <<arrived, returned, passedBy, cleared, turns>>
vars == <<link, now, origin, call, socket, queue, resets, history>>

-----------------------------------------------------------------------------
(* The link.                                                               *)

Elapse ==
  /\ now < MaxNow
  /\ now' = now + 1
  /\ UNCHANGED <<link, origin, call, socket, queue, resets, history>>

\* On CAN this is also what the test itself sends: the socket receives its own
\* messages.  A datagram is for the host, or it would not be here.
Arrive(key) ==
  /\ arrived < MaxMessages
  /\ link = "udp" => key = Host
  /\ arrived' = arrived + 1
  /\ socket' = Append(socket, [n |-> arrived + 1, key |-> key, at |-> now])
  /\ turns' = Append(turns, Len(queue) + Len(socket))
  /\ UNCHANGED <<link, now, origin, call, queue, resets, returned, passedBy, cleared>>

-----------------------------------------------------------------------------
(* The calls.                                                              *)

\* A poll that looks at the link is a turn for what waits there: on CAN for every
\* frame, on UDP for the datagrams of its endpoint.
Waiting == {m.n : m \in {w \in Range(queue \o socket) : link = "can" \/ w.key = asked}}
NextTurn == turns' = [n \in DOMAIN turns |-> IF n \in Waiting THEN turns[n] - 1 ELSE turns[n]]

Poll(key) ==
  /\ pc = "idle"
  /\ now + PollUs <= MaxNow
  /\ pc' = IF link = "can" THEN "recv" ELSE "look"
  /\ asked' = key
  /\ deadline' = now + PollUs
  /\ UNCHANGED <<link, now, origin, socket, queue, resets, history>>

Return(m) ==
  /\ returned' = Append(returned, m)
  /\ pc' = "idle"

\* HardwareTarget: the oldest frame ends the poll, whether it was asked for or not.
RecvFrame ==
  /\ link = "can" /\ pc = "recv"
  /\ socket # <<>>
  /\ socket' = Tail(socket)
  /\ IF Head(socket).key = asked
     THEN Return(Head(socket)) /\ UNCHANGED passedBy
     ELSE pc' = "idle" /\ passedBy' = passedBy \cup {Head(socket)} /\ UNCHANGED returned
  /\ NextTurn
  /\ UNCHANGED <<link, now, origin, asked, deadline, queue, resets, arrived, cleared>>

\* Mutant: the newest of the queue is returned.
TakeQueuedNewest ==
  /\ pc = "look"
  /\ \E i \in DOMAIN queue :
       /\ queue[i].key = asked
       /\ \A j \in DOMAIN queue : queue[j].key = asked => j <= i
       /\ Return(queue[i])
       /\ queue' = RemoveAt(queue, i)
  /\ NextTurn
  /\ UNCHANGED <<link, now, origin, asked, deadline, socket, resets, arrived, passedBy,
                 cleared>>

\* UdpHardwareTarget: the first datagram in the queue for the endpoint.
TakeQueued ==
  /\ pc = "look"
  /\ \E i \in DOMAIN queue :
       /\ queue[i].key = asked
       /\ \A j \in 1 .. i - 1 : queue[j].key # asked
       /\ Return(queue[i])
       /\ queue' = RemoveAt(queue, i)
  /\ NextTurn
  /\ UNCHANGED <<link, now, origin, asked, deadline, socket, resets, arrived, passedBy,
                 cleared>>

NoneQueued == pc = "look" /\ \A m \in Range(queue) : m.key # asked

\* Nothing queued and the time is up: what waits in the socket is not looked at.
LookTooLate ==
  /\ NoneQueued
  /\ now >= deadline
  /\ pc' = "idle"
  /\ UNCHANGED <<link, now, origin, asked, deadline, socket, queue, resets, history>>

LookFurther ==
  /\ NoneQueued
  /\ now < deadline
  /\ pc' = "recv"
  /\ UNCHANGED <<link, now, origin, asked, deadline, socket, queue, resets, history>>

\* Mutant: a datagram for another endpoint than the one asked for is dropped.
RecvDatagramDrops ==
  /\ link = "udp" /\ pc = "recv"
  /\ socket # <<>>
  /\ socket' = Tail(socket)
  /\ queue' = IF Head(socket).key = asked THEN Append(queue, Head(socket)) ELSE queue
  /\ pc' = "look"
  /\ UNCHANGED <<link, now, origin, asked, deadline, resets, history>>

RecvDatagram ==
  /\ link = "udp" /\ pc = "recv"
  /\ socket # <<>>
  /\ socket' = Tail(socket)
  /\ queue' = Append(queue, Head(socket))
  /\ pc' = "look"
  /\ UNCHANGED <<link, now, origin, asked, deadline, resets, history>>

\* Mutant: an empty poll is started again.
RecvTimesOutAgain ==
  /\ pc = "recv"
  /\ socket = <<>>
  /\ now >= deadline
  /\ deadline' = now + PollUs
  /\ NextTurn
  /\ UNCHANGED <<link, now, origin, pc, asked, socket, queue, resets, arrived, returned,
                 passedBy, cleared>>

RecvTimesOut ==
  /\ pc = "recv"
  /\ socket = <<>>
  /\ now >= deadline
  /\ pc' = "idle"
  /\ NextTurn
  /\ UNCHANGED <<link, now, origin, asked, deadline, socket, queue, resets, arrived, returned,
                 passedBy, cleared>>

Wait(d) ==
  /\ pc = "idle"
  /\ now + d <= MaxNow
  /\ pc' = "sleep"
  /\ deadline' = now + d
  /\ UNCHANGED <<link, now, origin, asked, socket, queue, resets, history>>

WakeUp ==
  /\ pc = "sleep"
  /\ now >= deadline
  /\ pc' = "idle"
  /\ UNCHANGED <<link, now, origin, asked, deadline, socket, queue, resets, history>>

\* On CAN nothing happens; on UDP the queue and the clock are new, the socket is not.
Reset ==
  /\ pc = "idle"
  /\ resets < MaxResets
  /\ resets' = resets + 1
  /\ IF link = "can" THEN UNCHANGED <<origin, queue, cleared>>
     ELSE /\ origin' = now
          /\ queue' = <<>>
          /\ cleared' = cleared \cup Range(queue)
  /\ UNCHANGED <<link, now, call, socket, arrived, returned, passedBy, turns>>

-----------------------------------------------------------------------------

Init ==
  /\ link \in {"can", "udp"}
  /\ now = 0 /\ origin = 0
  /\ pc = "idle" /\ asked = Host /\ deadline = 0
  /\ socket = <<>> /\ queue = <<>>
  /\ resets = 0
  /\ arrived = 0 /\ returned = <<>> /\ passedBy = {} /\ cleared = {}
  /\ turns = <<>>

Working == \/ RecvFrame \/ TakeQueued \/ LookTooLate \/ LookFurther
           \/ RecvDatagram \/ RecvTimesOut \/ WakeUp

Next ==
  \/ Elapse \/ Working \/ Reset
  \/ \E k \in Keys : Arrive(k) \/ Poll(k)
  \/ \E d \in Waits : Wait(d)

Spec == Init /\ [][Next]_vars

-----------------------------------------------------------------------------
(* Properties.                                                             *)

\* Every message that arrived is in one place: returned, taken by a poll for
\* another key, thrown away by a reset, queued or still in the kernel; and
\* polls return them in the order in which they came.
EveryMessageInOnePlace ==
  LET line == returned \o queue \o socket
  IN  /\ \A i, j \in DOMAIN line : i < j => line[i].n < line[j].n
      /\ Len(line) + Cardinality(passedBy) + Cardinality(cleared) = arrived
      /\ {m.n : m \in Range(line) \cup passedBy \cup cleared} = 1 .. arrived
      /\ link = "udp" => passedBy = {}

\* Each poll takes one message: a message with k others before it is reached
\* by the k+1st poll at the latest, on UDP of its endpoint, whatever arrives
\* behind it.  (A UDP poll the host held up for POLL_US looks at nothing and
\* does not count.)
ReachedInTurn == \A m \in Range(queue \o socket) : turns[m.n] >= 0
=============================================================================
