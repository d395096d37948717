----------------------------- MODULE NetworkSim -----------------------------
(***************************************************************************)
(* The deterministic network engine that CAN, UDP and TCP simulations      *)
(* share: crates/embrig-core/src/network.rs.  One thread owns the engine;  *)
(* between calls of its interface (attach, subscribe, add_fault, inject,   *)
(* run_until) it is "idle".  run_until repeats a tick: every ECU updates   *)
(* in attach order and pushes messages, every pushed message is routed     *)
(* through the fault rules, messages whose delay has elapsed are           *)
(* delivered, and the clock advances by StepUs.                            *)
(*                                                                         *)
(* An ECU is a `dyn NetEcu`: its update may push anything, so each update  *)
(* pushes a burst chosen freely from Bursts, and what the ECU knows is the *)
(* list of messages it was handed (inbox).                                 *)
(*                                                                         *)
(* Fields that the program does not store, kept for the properties only:   *)
(* a message's id, born and from; a record's tick for a "message" record;  *)
(* a fault's and a subscription's since.                                   *)
(***************************************************************************)
EXTENDS Integers, Sequences, FiniteSets

CONSTANTS
  Keys,         (* subscription keys: CAN ids or destination endpoints     *)
  KeyLists,     (* the key lists an ECU may be attached with               *)
  Bursts,       (* what one update may push: sequences of keys             *)
  Rules,        (* the fault rules a caller may add                        *)
  RunTargets,   (* the arguments of run_until                              *)
  StepUs,       (* step_us                                                 *)
  Forever,      (* `duration: None`                                        *)
  MaxMessages,  (* bound on messages created                               *)
  MaxEcus,      (* bound on attached ECUs                                  *)
  MaxSubs,      (* bound on the subscriptions of one key                   *)
  MaxFaults     (* bound on fault rules                                    *)

RuleType == [key : Keys, kind : {"drop", "delay", "corrupt"}, delay : Nat,
             flips : BOOLEAN, start : Nat, duration : Nat \cup {Forever}]

ASSUME NetworkSimAssumption ==
  /\ StepUs \in Nat \ {0}
  /\ Forever \notin Nat
  /\ KeyLists \subseteq Seq(Keys)
  /\ Bursts \subseteq Seq(Keys)
  /\ <<>> \in Bursts
  /\ Rules \subseteq RuleType
  /\ RunTargets \subseteq Nat
  /\ MaxMessages \in Nat
  /\ MaxEcus \in Nat
  /\ MaxSubs \in Nat
  /\ MaxFaults \in Nat

VARIABLES
  time,      (* the engine clock, microseconds                             *)
  pc,        (* where the thread is: idle or a phase of a tick             *)
  until,     (* argument of the current (or last) run_until                *)
  turn,      (* next ECU to update in this tick                            *)
  outbound,  (* messages pushed this tick, not routed yet                  *)
  delayed,   (* messages held by a delay fault                             *)
  due,       (* held messages released this tick, not delivered yet        *)
  records,   (* the recorder                                               *)
  faults,    (* fault rules, in the order they were added                  *)
  subs,      (* key -> subscriptions in order                              *)
  inbox,     (* the ECU vector; an ECU is the messages it was handed       *)
  nextId     (* number of messages created so far                          *)

vars == <<time, pc, until, turn, outbound, delayed, due, records, faults,
          subs, inbox, nextId>>

Message == [id : Nat, key : Keys, ts : Nat, data : {"intact", "flipped"},
            born : Nat, from : Nat]
Held == [at : Nat, msg : Message]
Record == [kind : {"message", "dropped", "delayed", "corrupted"},
           msg : Message, tick : Nat]

NewMessage(id, k, e) ==
  [id |-> id, key |-> k, ts |-> 0, data |-> "intact", born |-> time, from |-> e]

-----------------------------------------------------------------------------
(* The recorder and delivery.                                              *)

Repeat(x, n) == [c \in 1 .. n |-> x]

Entry(kind, m) == [kind |-> kind, msg |-> m, tick |-> time]

\* Mutant: an ECU listed twice under a key is handed the message once.
CopiesOnce(e, k) ==
  IF \E s \in DOMAIN subs[k] : subs[k][s].ecu = e THEN 1 ELSE 0

\* How often the index of ECU e stands under key k: on_message runs that often.
Copies(e, k) == Cardinality({s \in DOMAIN subs[k] : subs[k][s].ecu = e})

\* Mutant: the newest message is put in front of what the ECU already got.
DeliverInFront(m) ==
  inbox' = [e \in DOMAIN inbox |-> Repeat(m, Copies(e, m.key)) \o inbox[e]]

\* deliver: hand m to every subscription of its key.
Deliver(m) ==
  inbox' = [e \in DOMAIN inbox |-> inbox[e] \o Repeat(m, Copies(e, m.key))]

-----------------------------------------------------------------------------
(* Calls made between runs.                                                *)

\* Mutant: the ECU is subscribed but never pushed on the ECU vector.
AttachForgetsEcu(keys) ==
  /\ pc = "idle"
  /\ Len(inbox) < MaxEcus
  /\ subs' = [k \in Keys |->
       subs[k] \o Repeat([ecu |-> Len(inbox) + 1, since |-> Len(records)],
                         Cardinality({i \in DOMAIN keys : keys[i] = k}))]
  /\ UNCHANGED <<time, pc, until, turn, outbound, delayed, due, records,
                 faults, inbox, nextId>>

\* attach, attach1: push the ECU, append its index under each listed key.
Attach(keys) ==
  /\ pc = "idle"
  /\ Len(inbox) < MaxEcus
  /\ subs' = [k \in Keys |->
       subs[k] \o Repeat([ecu |-> Len(inbox) + 1, since |-> Len(records)],
                         Cardinality({i \in DOMAIN keys : keys[i] = k}))]
  /\ inbox' = Append(inbox, <<>>)
  /\ UNCHANGED <<time, pc, until, turn, outbound, delayed, due, records,
                 faults, nextId>>

\* subscribe: one more subscription of an ECU that is already attached.
Subscribe(k, e) ==
  /\ pc = "idle"
  /\ Len(subs[k]) < MaxSubs
  /\ subs' = [subs EXCEPT ![k] = Append(@, [ecu |-> e, since |-> Len(records)])]
  /\ UNCHANGED <<time, pc, until, turn, outbound, delayed, due, records,
                 faults, inbox, nextId>>

AddFault(r) ==
  /\ pc = "idle"
  /\ Len(faults) < MaxFaults
  /\ faults' = Append(faults, [rule |-> r, since |-> nextId])
  /\ UNCHANGED <<time, pc, until, turn, outbound, delayed, due, records,
                 subs, inbox, nextId>>

\* inject: stamp, record and deliver at once; no fault rule is consulted.
Inject(k) ==
  /\ pc = "idle"
  /\ nextId < MaxMessages
  /\ LET m == [NewMessage(nextId, k, 0) EXCEPT !.ts = time]
     IN  /\ records' = Append(records, Entry("message", m))
         /\ Deliver(m)
  /\ nextId' = nextId + 1
  /\ UNCHANGED <<time, pc, until, turn, outbound, delayed, due, faults, subs>>

\* run_until: enter the loop, or return at once when t is not in the future.
RunUntil(t) ==
  /\ pc = "idle"
  /\ until' = t
  /\ IF time < t THEN pc' = "update" /\ turn' = 1 ELSE UNCHANGED <<pc, turn>>
  /\ UNCHANGED <<time, outbound, delayed, due, records, faults, subs, inbox,
                 nextId>>

-----------------------------------------------------------------------------
(* One tick: step().                                                       *)

\* ecu.update(time, &mut outbound) of the ECU whose turn it is.
UpdateEcu(burst) ==
  /\ pc = "update"
  /\ turn \in DOMAIN inbox
  /\ nextId + Len(burst) <= MaxMessages
  /\ outbound' = outbound \o
       [i \in 1 .. Len(burst) |-> NewMessage(nextId + i - 1, burst[i], turn)]
  /\ nextId' = nextId + Len(burst)
  /\ turn' = turn + 1
  /\ UNCHANGED <<time, pc, until, delayed, due, records, faults, subs, inbox>>

UpdatesDone ==
  /\ pc = "update"
  /\ turn \notin DOMAIN inbox
  /\ pc' = "route"
  /\ UNCHANGED <<time, until, turn, outbound, delayed, due, records, faults,
                 subs, inbox, nextId>>

\* active_at: the half-open window [start, start + duration).
ActiveNow(r) ==
  /\ r.start <= time
  /\ r.duration # Forever => time < r.start + r.duration

Matches(i, k) == faults[i].rule.key = k /\ ActiveNow(faults[i].rule)

\* Mutant: the rule added last decides.
LastMatch(i, k) ==
  /\ Matches(i, k)
  /\ \A j \in DOMAIN faults : i < j => ~Matches(j, k)

\* apply_faults: the first rule, in insertion order, that is active and matches.
FirstMatch(i, k) ==
  /\ Matches(i, k)
  /\ \A j \in 1 .. i - 1 : ~Matches(j, k)

RouteClean(m) ==
  /\ \A i \in DOMAIN faults : ~Matches(i, m.key)
  /\ records' = Append(records, Entry("message", m))
  /\ Deliver(m)
  /\ UNCHANGED delayed

RouteDrop(m, r) ==
  /\ r.kind = "drop"
  /\ records' = Append(records, Entry("dropped", m))
  /\ UNCHANGED <<delayed, inbox>>

RouteDelay(m, r) ==
  /\ r.kind = "delay"
  /\ records' = Append(records, Entry("delayed", m))
  /\ delayed' = delayed \cup
       {[at |-> time + r.delay, msg |-> [m EXCEPT !.ts = @ + r.delay]]}
  /\ UNCHANGED inbox

\* The byte is flipped only when its index lies in the payload (and the mask
\* is not 0): r.flips.  The event is recorded in either case.
RouteCorrupt(m, r) ==
  /\ r.kind = "corrupt"
  /\ LET c == IF r.flips THEN [m EXCEPT !.data = "flipped"] ELSE m
     IN  /\ records' = records \o <<Entry("corrupted", c), Entry("message", c)>>
         /\ Deliver(c)
  /\ UNCHANGED delayed

\* route: the next pushed message, stamped with the tick's time.
Route ==
  /\ pc = "route"
  /\ outbound # <<>>
  /\ outbound' = Tail(outbound)
  /\ LET m == [Head(outbound) EXCEPT !.ts = time]
     IN  \/ RouteClean(m)
         \/ \E i \in DOMAIN faults :
              /\ FirstMatch(i, m.key)
              /\ \/ RouteDrop(m, faults[i].rule)
                 \/ RouteDelay(m, faults[i].rule)
                 \/ RouteCorrupt(m, faults[i].rule)
  /\ UNCHANGED <<time, pc, until, turn, due, faults, subs, nextId>>

\* Mutant: a message due exactly now is kept for the next tick.
IsDueLate(d) == d.at < time

IsDue(d) == d.at <= time

\* Mutant: released messages are not taken out of the delay list.
TakeDueKeeps ==
  /\ pc = "route"
  /\ outbound = <<>>
  /\ due' = {d \in delayed : IsDue(d)}
  /\ pc' = "due"
  /\ UNCHANGED <<time, until, turn, outbound, delayed, records, faults, subs,
                 inbox, nextId>>

\* delayed.retain(..): move what is due from the delay list to `due`.
TakeDue ==
  /\ pc = "route"
  /\ outbound = <<>>
  /\ due' = {d \in delayed : IsDue(d)}
  /\ delayed' = {d \in delayed : ~IsDue(d)}
  /\ pc' = "due"
  /\ UNCHANGED <<time, until, turn, outbound, records, faults, subs, inbox,
                 nextId>>

\* Mutant: released messages are delivered last in, first out.
NewestDue(d) == d \in due /\ \A other \in due : d.msg.id >= other.msg.id

\* Messages are numbered, routed and put on the delay list in one order, so
\* the front of the released ones is the one with the least id.
FrontDue(d) == d \in due /\ \A other \in due : d.msg.id <= other.msg.id

DeliverDue ==
  /\ pc = "due"
  /\ \E d \in due :
       /\ FrontDue(d)
       /\ records' = Append(records, Entry("message", d.msg))
       /\ Deliver(d.msg)
       /\ due' = due \ {d}
  /\ UNCHANGED <<time, pc, until, turn, outbound, delayed, faults, subs, nextId>>

\* Mutant: run_until runs while time <= until.
EndTickInclusive ==
  /\ pc = "due"
  /\ due = {}
  /\ time' = time + StepUs
  /\ IF time + StepUs <= until THEN pc' = "update" /\ turn' = 1
                               ELSE pc' = "idle" /\ UNCHANGED turn
  /\ UNCHANGED <<until, outbound, delayed, due, records, faults, subs, inbox,
                 nextId>>

\* Mutant: the clock is not advanced.
EndTickFrozen ==
  /\ pc = "due"
  /\ due = {}
  /\ pc' = "update"
  /\ turn' = 1
  /\ UNCHANGED <<time, until, outbound, delayed, due, records, faults, subs,
                 inbox, nextId>>

\* time += step_us, and the test of run_until's loop.
EndTick ==
  /\ pc = "due"
  /\ due = {}
  /\ time' = time + StepUs
  /\ IF time + StepUs < until THEN pc' = "update" /\ turn' = 1
                              ELSE pc' = "idle" /\ UNCHANGED turn
  /\ UNCHANGED <<until, outbound, delayed, due, records, faults, subs, inbox,
                 nextId>>

-----------------------------------------------------------------------------

Init ==
  /\ time = 0
  /\ pc = "idle"
  /\ until = 0
  /\ turn = 1
  /\ outbound = <<>>
  /\ delayed = {}
  /\ due = {}
  /\ records = <<>>
  /\ faults = <<>>
  /\ subs = [k \in Keys |-> <<>>]
  /\ inbox = <<>>
  /\ nextId = 0

Call ==
  \/ \E keys \in KeyLists : Attach(keys)
  \/ \E k \in Keys, e \in DOMAIN inbox : Subscribe(k, e)
  \/ \E r \in Rules : AddFault(r)
  \/ \E k \in Keys : Inject(k)
  \/ \E t \in RunTargets : RunUntil(t)

Tick ==
  \/ \E burst \in Bursts : UpdateEcu(burst)
  \/ UpdatesDone
  \/ Route
  \/ TakeDue
  \/ DeliverDue
  \/ EndTick

Next == Call \/ Tick

Spec == Init /\ [][Next]_vars

(* A thread inside run_until keeps executing: nothing in the loop blocks.  *)
FairSpec == Spec /\ WF_vars(Tick)

-----------------------------------------------------------------------------
(* Properties.                                                             *)

Subscription == [ecu : Nat \ {0}, since : Nat]
FaultEntry == [rule : Rules, since : Nat]

\* The variables have their types, and no subscription names an ECU outside
\* the vector (deliver indexes the vector with it).
TypeOK ==
  /\ time \in Nat
  /\ pc \in {"idle", "update", "route", "due"}
  /\ until \in Nat
  /\ turn \in Nat \ {0}
  /\ outbound \in Seq(Message)
  /\ delayed \in SUBSET Held
  /\ due \in SUBSET Held
  /\ records \in Seq(Record)
  /\ faults \in Seq(FaultEntry)
  /\ subs \in [Keys -> Seq(Subscription)]
  /\ inbox \in Seq(Seq(Message))
  /\ nextId \in Nat
  /\ \A k \in Keys : \A s \in DOMAIN subs[k] : subs[k][s].ecu \in DOMAIN inbox

Delivered == {n \in DOMAIN records : records[n].kind = "message"}

\* Records that end a message's way through the engine.
Settled == {n \in DOMAIN records : records[n].kind \in {"message", "dropped"}}

Waiting(id) == \E i \in DOMAIN outbound : outbound[i].id = id
HeldBack(id) == \E d \in delayed \cup due : d.msg.id = id

\* Every message an ECU pushed or a caller injected is, at every moment, in
\* exactly one place: waiting for its route, held by a delay (or just released),
\* dropped with its event, or recorded as delivered.  Nothing that step() and
\* route() move from list to list is lost, or settled a second time.
ExactlyOneFate ==
  /\ \A id \in 0 .. nextId - 1 :
       Waiting(id) \/ HeldBack(id) \/ \E n \in Settled : records[n].msg.id = id
  /\ \A n \in Settled : /\ ~Waiting(records[n].msg.id)
                        /\ ~HeldBack(records[n].msg.id)
  /\ \A m, n \in Settled : records[m].msg.id = records[n].msg.id => m = n
  /\ \A i, j \in DOMAIN outbound : outbound[i].id = outbound[j].id => i = j
  /\ \A i \in DOMAIN outbound : ~HeldBack(outbound[i].id)
  /\ \A c, d \in delayed \cup due : c.msg.id = d.msg.id => c = d
  /\ delayed \cap due = {}

\* A message is delivered in the first tick that does not precede its time
\* stamp, so a delay fault holds it for the delay and for less than a step
\* more, and nothing overdue stays on the delay list.
OnTime ==
  /\ \A n \in Delivered :
       /\ records[n].msg.ts <= records[n].tick
       /\ records[n].tick < records[n].msg.ts + StepUs
  /\ pc = "idle" => \A d \in delayed : time < d.at + StepUs

InWindow(r, t) ==
  IF r.duration = Forever THEN r.start <= t
                          ELSE t \in r.start .. r.start + r.duration - 1

\* The rules that were there when message m was pushed and whose window holds
\* the time it was pushed at.
RulesOn(m) ==
  {i \in DOMAIN faults : /\ faults[i].rule.key = m.key
                         /\ faults[i].since <= m.id
                         /\ InWindow(faults[i].rule, m.born)}

\* What an ECU sent reaches the network the way the earliest added of the rules
\* that held when it was sent says, whatever was added or expired since: a
\* dropped message is never delivered, a delayed one carries its shifted time
\* stamp, only a corrupted one is changed.
FirstActiveRuleDecides ==
  \A n \in DOMAIN records :
    LET m == records[n].msg
        on == RulesOn(m)
        r == faults[CHOOSE i \in on : \A j \in on : i <= j].rule
    IN  (m.from # 0 /\ records[n].kind \in {"message", "dropped"}) =>
          IF on = {}
          THEN records[n].kind = "message" /\ m.data = "intact" /\ m.ts = m.born
          ELSE /\ (records[n].kind = "dropped") = (r.kind = "drop")
               /\ (m.data = "flipped") = (r.kind = "corrupt" /\ r.flips)
               /\ m.ts = m.born + (IF r.kind = "delay" THEN r.delay ELSE 0)

WasDelayed(m) ==
  \E n \in DOMAIN records : records[n].kind = "delayed" /\ records[n].msg.id = m.id

\* A message overtakes an earlier one of the same key only because the earlier
\* one was held by a delay fault; and if both were held, only because the later
\* one was released in an earlier tick.
OvertakenOnlyWhenDelayed ==
  \A i, j \in Delivered :
    LET early == records[j].msg
        late == records[i].msg
    IN  (i < j /\ early.key = late.key /\ early.id < late.id) =>
          /\ WasDelayed(early)
          /\ WasDelayed(late) => records[i].tick < records[j].tick

\* The recorder and the ECUs agree: every recorded message was handed to each
\* ECU once per subscription the ECU had to its key by then, and an ECU was
\* handed nothing else.
FanOut ==
  \A e \in DOMAIN inbox :
    /\ \A n \in Delivered :
         LET m == records[n].msg
         IN  Cardinality({i \in DOMAIN inbox[e] : inbox[e][i] = m}) =
             Cardinality({s \in DOMAIN subs[m.key] :
                            subs[m.key][s].ecu = e /\ subs[m.key][s].since < n})
    /\ \A i \in DOMAIN inbox[e] : \E n \in Delivered : records[n].msg = inbox[e][i]

\* All ECUs see the messages they share in one order, the recorder's: an ECU
\* never learns of two messages in an order another ECU contradicts.
BroadcastOrder ==
  \A e \in DOMAIN inbox : \A i, j \in DOMAIN inbox[e] :
    i < j => \E m, n \in Delivered : /\ m <= n
                                     /\ records[m].msg = inbox[e][i]
                                     /\ records[n].msg = inbox[e][j]

\* run_until returns with the clock at its argument or beyond it, and never
\* starts a tick at or after its argument.
RunStopsAtTarget ==
  /\ pc = "idle" => until <= time
  /\ pc # "idle" => time < until

\* Every run_until returns.
RunReturns == pc # "idle" ~> pc = "idle"
=============================================================================
