----------------------------- MODULE TestRunner -----------------------------
(***************************************************************************)
(* run_suite, run_spec and poll_until (crates/embrig-test/src/runner.rs)   *)
(* driving the virtual target (target.rs) or the software-in-the-loop      *)
(* target (embrig-sil), whose firmware may panic.  The vehicle under test is*)
(* seen through one message id: whenever virtual time runs, it may put a   *)
(* frame with any value on the bus, unless a drop fault covers the moment. *)
(*                                                                         *)
(* A suite is a sequence of test files, whose form is in TestFile.         *)
(***************************************************************************)
EXTENDS TestFile

CONSTANTS
  Suites,     (* the suites to run                                         *)
  Values,     (* what a frame may carry                                    *)
  Garbled,    (* a value whose frame cannot be decoded                     *)
  PollUs,     (* POLL_US                                                   *)
  StepUs      (* the simulation's step_us                                  *)

ASSUME TestRunnerAssumption ==
  /\ PollUs \in Nat \ {0}
  /\ StepUs \in Nat \ {0}
  /\ UsPerMs \in Nat
  /\ UsPerS \in Nat
  /\ None \notin Values
  /\ None \notin Nat
  /\ None \notin BOOLEAN
  /\ Top \in Nat \ {0}
  /\ Garbled \in Values

\* The loader only ever sees files that serde has read.
ASSUME FilesAssumption ==
  \A files \in Suites :
    /\ files \in Seq({files[i] : i \in DOMAIN files})
    /\ \A i \in DOMAIN files : IsFile(files[i])

VARIABLES
  suite,      (* the files being run                                       *)
  network,    (* what the target is on: "can" or "udp"                     *)
  pc,         (* "load", "reset", "step", "poll", "done", "aborted",       *)
              (* "panicked"                                                *)
  test,       (* index of the current file                                 *)
  stepNo,     (* index of the current step                                 *)
  start,      (* target time at which the test began                       *)
  deadline,   (* start + timeout                                           *)
  pollEnd,    (* deadline of the expectation that is being polled          *)
  results,    (* one result per test that ended                            *)
  \* The virtual target.
  clock,      (* elapsed_us                                                *)
  seen,       (* recorder.last_message(id): newest frame since the reset   *)
  faults,     (* the fault rules on the id, in the order they were added   *)
  override,   (* whether a signal override is in force                     *)
  broken,     (* whether a panic has unwound out of a tick of the          *)
              (* simulation, which leaves the tick undone half-way         *)
  \* For the properties: what was recorded since the reset, and what the
  \* passed presence expectations of the current test covered.
  arrivals,
  claims

runner == <<suite, network, test, stepNo, start, deadline, pollEnd, results>>
target == <<clock, seen, faults, override, broken, arrivals>>
vars == <<suite, network, pc, test, stepNo, start, deadline, pollEnd, results,
          clock, seen, faults, override, broken, arrivals, claims>>

File == suite[test]
CurrentStep == File.steps[stepNo]

-----------------------------------------------------------------------------
(* The virtual target.                                                     *)

\* Mutant: the clock stands still while the runner waits.
RunForNothing(d) == clock

\* The clock after whole simulation steps up to `until`; none when it is past.
RunTo(until) ==
  IF until <= clock THEN clock
  ELSE clock + StepUs * ((until - clock + StepUs - 1) \div StepUs)

\* run_for(d), whose target time wraps around.
RunFor(d) == RunTo(Plus(clock, d))

\* Mutant: the duration is taken for the time at which the rule ends.
ActiveUntil(f, t) ==
  /\ f.added <= t
  /\ f.from <= t
  /\ f.for # None => t < f.for

\* active_at, for a message of the tick t; a rule added later never sees it.
ActiveAt(f, t) ==
  /\ f.added <= t
  /\ f.from <= t
  /\ f.for # None => t < Plus(f.from, f.for)

\* What the first rule that is active decides for a message of the tick t.
Decides(t) ==
  LET active == {i \in DOMAIN faults : ActiveAt(faults[i], t)}
  IN  IF active = {} THEN [kind |-> "none", delay |-> 0]
      ELSE LET f == faults[CHOOSE i \in active : \A j \in active : i <= j]
           IN  [kind |-> f.kind, delay |-> f.delay]

\* The tick in which a message of the tick t that is held for d is released.
Released(t, d) ==
  LET due == Plus(t, d)
  IN  IF due <= t THEN t ELSE StepUs * ((due + StepUs - 1) \div StepUs)

\* A frame of the vehicle may be recorded in the tick t: one that is sent then
\* and passes, or one that was held back.
MayArrive(t) ==
  \/ Decides(t).kind \in {"none", "corrupt"}
  \/ \E n \in 0 .. t \div StepUs :
       /\ Decides(n * StepUs).kind = "delay"
       /\ Released(n * StepUs, Decides(n * StepUs).delay) = t

Ticks(until) == {clock + n * StepUs : n \in 0 .. (until - clock) \div StepUs - 1}

\* Mutant: a poll hands the newest frame out once and forgets it.
VehicleRunsOnce(until) ==
  \/ seen' = None /\ UNCHANGED arrivals
  \/ \E v \in Values, t \in Ticks(until) :
       /\ MayArrive(t)
       /\ seen' = v
       /\ arrivals' = arrivals \cup {[at |-> t, by |-> "vehicle"]}

\* While virtual time runs to `until` the vehicle sends nothing, or its newest
\* frame carries v and is recorded in one of the ticks.
VehicleRuns(until) ==
  \/ UNCHANGED <<seen, arrivals>>
  \/ \E v \in Values, t \in Ticks(until) :
       /\ MayArrive(t)
       /\ seen' = v
       /\ arrivals' = arrivals \cup {[at |-> t, by |-> "vehicle"]}

-----------------------------------------------------------------------------
(* Ending a step or a test.                                                *)

EndTest(passed, t) ==
  /\ results' = Append(results, [test |-> test, passed |-> passed,
                                 duration |-> t - start, ran |-> stepNo - 1])
  /\ pc' = "load"
  /\ test' = test + 1
  /\ UNCHANGED stepNo

\* Mutant: the time budget is looked at only when a step fails.
StepPassesUnchecked(t) ==
  /\ stepNo' = stepNo + 1
  /\ pc' = "step"
  /\ UNCHANGED <<test, results>>

\* Outcome Ok: the test's budget is checked after every step.
StepPasses(t) ==
  IF t > deadline
  THEN EndTest(FALSE, t)
  ELSE /\ stepNo' = stepNo + 1
       /\ pc' = "step"
       /\ UNCHANGED <<test, results>>

\* Mutant: a failing test ends the suite.
StepFailsSuite(t) ==
  /\ results' = Append(results, [test |-> test, passed |-> FALSE,
                                 duration |-> t - start, ran |-> stepNo - 1])
  /\ pc' = "done"
  /\ UNCHANGED <<test, stepNo>>

\* Outcome Err: the failure is recorded and the test's other steps skipped.
StepFails(t) == EndTest(FALSE, t)

-----------------------------------------------------------------------------
(* run_suite.                                                              *)

LoadTest ==
  /\ pc = "load"
  /\ test <= Len(suite)
  /\ pc' = IF Loads(File) THEN "reset" ELSE "aborted"
  /\ UNCHANGED <<runner, target, claims>>

SuiteDone ==
  /\ pc = "load"
  /\ test > Len(suite)
  /\ pc' = "done"
  /\ UNCHANGED <<runner, target, claims>>

\* A simulation that is built anew.
NewSimulation ==
  /\ clock' = 0
  /\ seen' = None
  /\ faults' = <<>>
  /\ override' = FALSE
  /\ broken' = FALSE
  /\ arrivals' = {}

\* Mutant: a simulation whose clock has not moved counts as fresh.
RebuildIfUsed ==
  IF clock > 0 THEN NewSimulation ELSE seen' = None /\ arrivals' = {} /\ UNCHANGED <<clock, faults, override, broken>>

\* target.reset() builds the simulation from the configuration again, whatever
\* the test before has left of the old one, and drops that.
Rebuild == NewSimulation

\* run_spec parses the test's budget and reads the clock.
Reset ==
  /\ pc = "reset"
  /\ Parses(File.timeout)
  /\ Rebuild
  /\ claims' = {}
  /\ start' = clock'
  /\ deadline' = SaturatingPlus(clock', Us(File.timeout))
  /\ stepNo' = 1
  /\ pc' = "step"
  /\ UNCHANGED <<suite, network, test, pollEnd, results>>

\* The DBC or the vehicle cannot be read again, or the budget is no duration,
\* which load_spec does not look at: an infrastructure error.
ResetFails ==
  /\ pc = "reset"
  /\ pc' = "aborted"
  /\ UNCHANGED <<runner, target, claims>>

-----------------------------------------------------------------------------
(* run_spec: one action per kind of step.                                  *)

AtStep(op) == pc = "step" /\ stepNo <= Len(File.steps) /\ CurrentStep.op = op

\* A step for the network the target is on.
AtOwnStep(op) == AtStep(op) /\ CurrentStep.net = network

TestDone ==
  /\ pc = "step"
  /\ stepNo > Len(File.steps)
  /\ EndTest(TRUE, clock)
  /\ UNCHANGED <<suite, network, start, deadline, pollEnd, target, claims>>

\* inject: recorded at once, no fault applies.
SendStep ==
  /\ AtOwnStep("send") /\ CurrentStep.fits
  /\ seen' = CurrentStep.value
  /\ arrivals' = arrivals \cup {[at |-> clock, by |-> "test"]}
  /\ StepPasses(clock)
  /\ UNCHANGED <<suite, network, start, deadline, pollEnd, clock, faults, override, broken, claims>>

SetSignalStep ==
  /\ AtOwnStep("set")
  /\ IF CurrentStep.known
     THEN override' = TRUE /\ StepPasses(clock)
     ELSE UNCHANGED override /\ StepFails(clock)
  /\ UNCHANGED <<suite, network, start, deadline, pollEnd, clock, seen, faults, broken, arrivals, claims>>

\* wait is not capped by the test's budget.
WaitStep ==
  /\ AtStep("wait")
  /\ clock' = RunFor(Us(CurrentStep.time))
  /\ VehicleRuns(clock')
  /\ StepPasses(clock')
  /\ UNCHANGED <<suite, network, start, deadline, pollEnd, faults, override, broken, claims>>

\* The rule a fault step adds; `meant` is the duration as it is written.
RuleOf(step) ==
  [kind |-> step.kind, delay |-> FaultDelay(step), added |-> clock,
   from |-> FaultStart(step, clock), for |-> FaultFor(step),
   meant |-> IF step.duration = None THEN None ELSE Meant(step.duration)]

\* A fault without a start begins now.  fault_from_kind panics over a fault that
\* is incomplete; a target on the other network refuses the rule.
FaultStep ==
  /\ AtStep("fault") /\ CurrentStep.net \in {network, "can"}
  /\ IF ~FaultComplete(CurrentStep)
     THEN pc' = "panicked" /\ UNCHANGED <<faults, test, stepNo, results>>
     ELSE IF CurrentStep.net = network
     THEN faults' = Append(faults, RuleOf(CurrentStep)) /\ StepPasses(clock)
     ELSE UNCHANGED faults /\ StepFails(clock)
  /\ UNCHANGED <<suite, network, start, deadline, pollEnd, clock, seen, override, broken, arrivals, claims>>

\* `?` inside a step, here over data that is too long for a frame or a field:
\* the whole suite ends and its results are lost.
SendAborts ==
  /\ AtStep("send")
  /\ ~CurrentStep.fits
  /\ pc' = "aborted"
  /\ UNCHANGED <<runner, target, claims>>

AtExpect == AtOwnStep("expect")

AtForeignStep(ops) == \E op \in ops : AtStep(op) /\ CurrentStep.net # network

\* The target refuses a step of the other network, or the netmap does not know
\* its message: the test fails, and no time passes, ...
ForeignStepFails ==
  /\ \/ AtForeignStep({"set", "expect"})
     \/ AtForeignStep({"send"}) /\ CurrentStep.net = "can" /\ CurrentStep.fits
  /\ StepFails(clock)
  /\ UNCHANGED <<suite, network, start, deadline, pollEnd, target, claims>>

\* ... except for send_udp and fault_udp, whose `?` ends the suite.
ForeignStepAborts ==
  /\ AtForeignStep({"send", "fault"})
  /\ CurrentStep.net # "can"
  /\ pc' = "aborted"
  /\ UNCHANGED <<runner, target, claims>>

\* Mutant: the poll loop heeds its own deadline only.
BeginExpectUncapped ==
  /\ AtExpect
  /\ pollEnd' = SaturatingPlus(clock, Within(CurrentStep))
  /\ pc' = "poll"
  /\ UNCHANGED <<suite, network, test, stepNo, start, deadline, results, target, claims>>

\* The head of poll_until: the deadline is capped by the test's.
BeginExpect ==
  /\ AtExpect
  /\ pollEnd' = Lesser(SaturatingPlus(clock, Within(CurrentStep)), deadline)
  /\ pc' = "poll"
  /\ UNCHANGED <<suite, network, test, stepNo, start, deadline, results, target, claims>>

\* check_assertion on the newest frame, or on None.
Holds(step, frame) ==
  LET present == EffectivePresent(step)
  IN  IF present = None THEN frame \in step.want ELSE present = (frame # None)

\* An absence that is refuted, or a value that cannot be decoded: no retry.
FailsAtOnce(step, frame) ==
  \/ EffectivePresent(step) = FALSE /\ frame # None
  \/ step.named /\ frame = Garbled

\* One turn of poll_until's loop; a poll lets POLL_US of virtual time pass.
Poll ==
  /\ pc = "poll"
  /\ clock' = RunFor(PollUs)
  /\ VehicleRuns(clock')
  /\ \/ /\ FailsAtOnce(CurrentStep, seen')
        /\ StepFails(clock')
        /\ UNCHANGED claims
     \/ /\ ~FailsAtOnce(CurrentStep, seen')
        /\ Holds(CurrentStep, seen')
        /\ StepPasses(clock')
        /\ claims' = claims \cup
             {[present |-> EffectivePresent(CurrentStep), from |-> clock, within |-> Within(CurrentStep),
               known |-> arrivals']}
     \/ /\ ~FailsAtOnce(CurrentStep, seen')
        /\ ~Holds(CurrentStep, seen')
        /\ Within(CurrentStep) = 0 \/ clock' >= pollEnd
        /\ StepFails(clock')
        /\ UNCHANGED claims
     \/ /\ ~FailsAtOnce(CurrentStep, seen')
        /\ ~Holds(CurrentStep, seen')
        /\ Within(CurrentStep) # 0 /\ clock' < pollEnd
        /\ UNCHANGED <<pc, test, stepNo, results, claims>>
  /\ UNCHANGED <<suite, network, start, deadline, pollEnd, faults, override, broken>>

-----------------------------------------------------------------------------
(* The software-in-the-loop target.  A firmware whose update or on_message *)
(* takes longer than its step budget panics; the panic unwinds out of the  *)
(* simulation, which stays as it is then, and comes back from run_sim as   *)
(* the step's error.  With firmware that keeps its budget, or without any, *)
(* these never happen.                                                     *)

\* Within a run of d some tick panics: the clock stays at that tick, and what
\* the tick had delivered before is recorded.
PanicsWithin(d) ==
  \E n \in 0 .. (RunFor(d) - clock) \div StepUs - 1 :
    /\ clock' = clock + n * StepUs
    /\ VehicleRuns(clock' + StepUs)
    /\ broken' = TRUE
    /\ StepFails(clock')

WaitPanics ==
  /\ AtStep("wait")
  /\ PanicsWithin(Us(CurrentStep.time))
  /\ UNCHANGED <<suite, network, start, deadline, pollEnd, faults, override, claims>>

PollPanics ==
  /\ pc = "poll"
  /\ PanicsWithin(PollUs)
  /\ UNCHANGED <<suite, network, start, deadline, pollEnd, faults, override, claims>>

\* The firmware panics over an injected frame, which is recorded by then.
SendPanics ==
  /\ AtOwnStep("send") /\ CurrentStep.fits
  /\ seen' = CurrentStep.value
  /\ arrivals' = arrivals \cup {[at |-> clock, by |-> "test"]}
  /\ broken' = TRUE
  /\ StepFails(clock)
  /\ UNCHANGED <<suite, network, start, deadline, pollEnd, clock, faults, override, claims>>

-----------------------------------------------------------------------------

Init ==
  /\ suite \in Suites
  /\ network \in {"can", "udp"}
  /\ pc = "load"
  /\ test = 1
  /\ stepNo = 1
  /\ start = 0
  /\ deadline = 0
  /\ pollEnd = 0
  /\ results = <<>>
  /\ clock = 0
  /\ seen = None
  /\ faults = <<>>
  /\ override = FALSE
  /\ broken = FALSE
  /\ arrivals = {}
  /\ claims = {}

\* run_suite has returned, with its results or with an error.
Returned == pc \in {"done", "aborted", "panicked"} /\ UNCHANGED vars

Next ==
  \/ LoadTest \/ SuiteDone \/ Reset \/ ResetFails
  \/ TestDone \/ SendStep \/ SetSignalStep \/ WaitStep \/ FaultStep \/ SendAborts
  \/ BeginExpect \/ Poll \/ ForeignStepFails \/ ForeignStepAborts
  \/ WaitPanics \/ PollPanics \/ SendPanics
  \/ Returned

Spec == Init /\ [][Next]_vars

(* The runner is one task that is always ready: every await of the virtual *)
(* target completes at once.                                               *)
FairSpec == Spec /\ WF_vars(Next)

-----------------------------------------------------------------------------
(* Properties.                                                             *)

\* A test that passes ended within its time budget: a hung test never passes
\* silently (runner.rs:193), whatever its waits and windows were.
PassedInBudget ==
  \A i \in DOMAIN results :
    results[i].passed => results[i].duration <= Us(suite[results[i].test].timeout)

\* How far one step of a test may run past the moment it is allowed to start.
Rounded(d) == StepUs * ((d + StepUs - 1) \div StepUs)
StepReach(step) == IF step.op = "wait" THEN Rounded(Us(step.time)) ELSE Rounded(PollUs)

\* No test outruns its budget by more than one wait or one poll: an expectation
\* with a huge `within` is cut off at the budget, and a step is only begun when
\* the budget is not used up.
OverrunBounded ==
  \A i \in DOMAIN results :
    LET file == suite[results[i].test]
    IN  \/ results[i].duration <= Us(file.timeout)
        \/ \E s \in DOMAIN file.steps :
             results[i].duration <= Us(file.timeout) + StepReach(file.steps[s])

\* When the suite returns results there is exactly one per file, in order, and
\* a passed test ran all its steps: a failing test stops only itself.
EveryTestReported ==
  pc = "done" =>
    /\ Len(results) = Len(suite)
    /\ \A i \in DOMAIN results :
         /\ results[i].test = i
         /\ results[i].passed => results[i].ran = Len(suite[i].steps)

\* The steps of the current file with this op that have been run, and passed.
Done(op) == {s \in 1 .. stepNo - 1 : File.steps[s].op = op}

\* f is the rule that this fault step adds at the moment f was added.
Imposes(step, f) ==
  /\ f.kind = step.kind
  /\ f.delay = FaultDelay(step)
  /\ f.for = FaultFor(step)
  /\ f.from = FaultStart(step, f.added)
  /\ f.added <= clock

\* Tests do not touch each other (runner.rs:44, embrig-sil lib.rs:37): while a
\* test runs, all that its target holds comes from the steps this test has run.
\* The rules in force are its fault steps, one for one and in their order; an
\* override or a frame of the test is there exactly if a step has made one;
\* time has passed, and the vehicle sent, only in a wait or a poll of its own;
\* and no step runs on a simulation that a panic has left half-way.
OnlyOwnSteps ==
  pc \in {"step", "poll"} =>
    /\ ~broken
    /\ Len(faults) = Cardinality(Done("fault"))
    /\ \A s \in Done("fault") :
         Imposes(File.steps[s], faults[Cardinality({r \in Done("fault") : r <= s})])
    /\ override <=> Done("set") # {}
    /\ (\E a \in arrivals : a.by = "test") <=> Done("send") # {}
    /\ clock > 0 \/ (\E a \in arrivals : a.by = "vehicle") =>
         Done("wait") \cup Done("expect") # {} \/ pc = "poll"
    /\ seen # None => arrivals # {}

\* An absence expectation passes only when nothing with the id has been on the
\* bus since the test began; a presence expectation only when something has.
PresenceKnown ==
  \A c \in claims : /\ c.present = FALSE => c.known = {}
                    /\ c.present = TRUE => c.known # {}

\* Every suite comes to an end.
SuiteReturns == <>(pc \in {"done", "aborted", "panicked"})

\* What the DSL says of `present: false` with `within` (dsl.rs:164): the frame
\* does not appear within the window.
AbsentForWindow ==
  \A c \in claims : c.present = FALSE =>
    \A a \in arrivals : ~(c.from <= a.at /\ a.at < c.from + c.within)

\* What the DSL says of a drop fault (dsl.rs:122): every frame with the id is
\* suppressed, here within the window the file states.  Frames the test sends
\* itself pass by every fault; with other rules on the id the first decides.
DropHolds ==
  (\A i \in DOMAIN faults : faults[i].kind = "drop") =>
    \A i \in DOMAIN faults, a \in arrivals :
      LET f == faults[i]
      IN  a.by = "vehicle" /\ f.added <= a.at /\ f.from <= a.at =>
            f.meant # None /\ f.from + f.meant <= a.at

\* A file that load_spec accepted never makes a step panic: what fault_from_kind
\* takes for granted has been checked (runner.rs:233).
StepsNeverPanic == pc # "panicked"
=============================================================================
