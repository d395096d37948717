------------------------------ MODULE TestFile ------------------------------
(***************************************************************************)
(* Test files (crates/embrig-test/src/dsl.rs): parse_duration, the checks  *)
(* of load_spec_str, and the numbers a step runs with.                     *)
(*                                                                         *)
(* A duration is [num, unit] as it is written: num is None when no digit   *)
(* stands before the unit, unit is any word, "" when there is none.        *)
(*                                                                         *)
(* A file is [yaml, timeout, steps]; yaml says whether it parses as a      *)
(* TestSpec.  A step is one of                                             *)
(*   [op |-> "send", net, fits, value]    fits: the frame or the datagram  *)
(*                                        can be built                     *)
(*   [op |-> "set", net, known]           of a known ECU, or not           *)
(*   [op |-> "wait", time]                                                 *)
(*   [op |-> "expect", net, given, named, want, within]                    *)
(*        given: which of the operators are there; named: whether a signal *)
(*        or field is; want: the values for which the operator holds, or   *)
(*        the BOOLEAN of present and absent                                *)
(*   [op |-> "fault", net, kind, delay, byte, mask, start, duration]       *)
(* where an optional entry may be None, and net is "can" for send,         *)
(* set_signal, expect and fault, "udp" for send_udp, set_field, expect_udp *)
(* and fault_udp, and "unmapped" for one of these whose message is not in  *)
(* the netmap.                                                             *)
(***************************************************************************)
EXTENDS Integers, FiniteSets, Sequences

CONSTANTS
  UsPerMs,    (* US_PER_MS                                                 *)
  UsPerS,     (* US_PER_S                                                  *)
  Top,        (* a Timestamp is below this: 2^64                           *)
  None        (* an entry that is not there                                *)

\* The steps a file may hold: the entries of each kind, as serde reads them.
IsDuration(d) == DOMAIN d = {"num", "unit"} /\ d.num \in Nat \cup {None}
IsSend(step) ==
  DOMAIN step = {"op", "net", "fits", "value"} /\ step.value # None
IsExpect(step) ==
  /\ DOMAIN step = {"op", "net", "given", "named", "want", "within"}
  /\ step.within # None => IsDuration(step.within)
IsFault(step) ==
  /\ DOMAIN step = {"op", "net", "kind", "delay", "byte", "mask", "start", "duration"}
  /\ step.kind \in {"drop", "delay", "corrupt"}
  /\ \A d \in {step.delay, step.start, step.duration} : d # None => IsDuration(d)
IsStep(step) ==
  \/ step.op = "send" /\ IsSend(step)
  \/ step.op = "set" /\ DOMAIN step = {"op", "net", "known"}
  \/ step.op = "wait" /\ DOMAIN step = {"op", "time"} /\ IsDuration(step.time)
  \/ step.op = "expect" /\ IsExpect(step)
  \/ step.op = "fault" /\ IsFault(step)
IsFile(file) ==
  /\ DOMAIN file = {"yaml", "timeout", "steps"}
  /\ IsDuration(file.timeout)
  /\ file.steps \in Seq({file.steps[i] : i \in DOMAIN file.steps})
  /\ \A i \in DOMAIN file.steps : IsStep(file.steps[i])

Units == {"us", "ms", "s"}

Factor(unit) == CASE unit = "us" -> 1 [] unit = "ms" -> UsPerMs [] unit = "s" -> UsPerS

\* Timestamps are u64; a build without overflow checks wraps around.
Plus(a, b) == (a + b) % Top
SaturatingPlus(a, b) == IF a + b < Top THEN a + b ELSE Top - 1

Lesser(a, b) == IF a <= b THEN a ELSE b

-----------------------------------------------------------------------------
(* parse_duration.                                                         *)

Parses(d) == d.unit \in Units /\ d.num # None /\ d.num < Top

\* What is written, which only the properties know.
Meant(d) == d.num * Factor(d.unit)

\* The product is not checked.
Us(d) == Meant(d) % Top

\* An optional duration that is left out, or is a duration.
OptionParses(d) == d = None \/ Parses(d)

-----------------------------------------------------------------------------
(* load_spec_str.                                                          *)

Presence == {"present", "absent"}
Comparisons == {"equals", "greater_than", "less_than"}

\* ExpectStep::validate, ExpectUdpStep::validate.
ValidExpect(step) ==
  /\ Cardinality(step.given) = 1
  /\ step.given \subseteq Presence \/ step.named
  /\ OptionParses(step.within)

\* Mutant: a mask alone is enough for a corrupt fault.
ValidFaultLax(step) ==
  /\ OptionParses(step.duration)
  /\ OptionParses(step.start)
  /\ step.kind = "delay" => step.delay # None /\ Parses(step.delay)
  /\ step.kind = "corrupt" => step.byte # None \/ step.mask # None

ValidFault(step) ==
  /\ OptionParses(step.duration)
  /\ OptionParses(step.start)
  /\ step.kind = "delay" => step.delay # None /\ Parses(step.delay)
  /\ step.kind = "corrupt" => step.byte # None /\ step.mask # None

\* load_spec.  Neither the test's timeout nor the data of a send is looked at.
Loads(file) ==
  /\ file.yaml
  /\ \A i \in DOMAIN file.steps :
       LET step == file.steps[i]
       IN  /\ step.op = "expect" => ValidExpect(step)
           /\ step.op = "wait" => Parses(step.time)
           /\ step.op = "fault" => ValidFault(step)

-----------------------------------------------------------------------------
(* What a step runs with.                                                  *)

\* effective_present: TRUE, FALSE, or None for a comparison.
EffectivePresent(step) ==
  CASE step.given = {"present"} -> step.want
    [] step.given = {"absent"} -> ~step.want
    [] OTHER -> None

Within(step) == IF step.within = None THEN 0 ELSE Us(step.within)

\* The start and the duration of a fault, as it is handed to add_fault.
FaultStart(step, now) == IF step.start = None THEN now ELSE Us(step.start)
FaultFor(step) == IF step.duration = None THEN None ELSE Us(step.duration)

\* fault_from_kind and udp_fault_from_kind rely on load_spec for these.
FaultComplete(step) ==
  /\ step.kind = "delay" => step.delay # None
  /\ step.kind = "corrupt" => step.byte # None /\ step.mask # None
FaultDelay(step) == IF step.kind = "delay" THEN Us(step.delay) ELSE 0
=============================================================================
