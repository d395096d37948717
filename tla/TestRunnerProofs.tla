-------------------------- MODULE TestRunnerProofs --------------------------
(***************************************************************************)
(* What the runner promises, for every suite of well-formed test files and *)
(* whatever the vehicle does: the verdicts keep to the time budgets, they  *)
(* are complete, tests do not touch each other, and no step panics.        *)
(***************************************************************************)
EXTENDS TestRunner, SequenceTheorems, FiniteSetTheorems, WellFoundedInduction, TLAPS

-----------------------------------------------------------------------------
(* Durations.                                                              *)

LEMMA Constants ==
  /\ UsPerMs \in Nat /\ UsPerS \in Nat /\ Top \in Nat \ {0}
  /\ PollUs \in Nat \ {0} /\ StepUs \in Nat \ {0}
  /\ None \notin Nat /\ None \notin Values /\ None \notin BOOLEAN
BY TestRunnerAssumption

\* What parse_duration accepts fits a Timestamp, wrapped or not.
LEMMA UsType ==
  ASSUME NEW d, IsDuration(d), Parses(d)
  PROVE  Us(d) \in Nat /\ Us(d) < Top
<1>1. d.num \in Nat
  BY Constants DEF IsDuration, Parses
<1>2. Factor(d.unit) \in Nat
  <2>1. d.unit = "us" \/ d.unit = "ms" \/ d.unit = "s"
    BY DEF Parses, Units
  <2>2. CASE d.unit = "us"
    BY <2>2 DEF Factor
  <2>3. CASE d.unit = "ms"
    BY <2>3, Constants DEF Factor
  <2>4. CASE d.unit = "s"
    BY <2>4, Constants DEF Factor
  <2> QED BY <2>1, <2>2, <2>3, <2>4
<1>3. Meant(d) \in Nat
  BY <1>1, <1>2 DEF Meant
<1> QED BY <1>3, Constants DEF Us

\* A step's quotient and rest.
LEMMA Whole ==
  ASSUME NEW a \in Nat
  PROVE  /\ a \div StepUs \in Nat
         /\ StepUs * (a \div StepUs) <= a
         /\ StepUs * (a \div StepUs) \in Nat
<1>1. StepUs \in Nat \ {0}
  BY Constants
<1>2. a \div StepUs \in Nat /\ StepUs * (a \div StepUs) <= a
  BY <1>1
<1> QED BY <1>1, <1>2

LEMMA StepMonotonic ==
  ASSUME NEW m \in Nat, NEW n \in Nat, m <= n
  PROVE  StepUs * m <= StepUs * n
<1>1. PICK d \in Nat : n = m + d
  <2>1. n - m \in Nat /\ n = m + (n - m)
    OBVIOUS
  <2> QED BY <2>1
<1>2. StepUs \in Nat
  BY Constants
<1>3. StepUs * n = StepUs * m + StepUs * d /\ StepUs * d >= 0 /\ StepUs * m \in Nat
  BY <1>1, <1>2
<1> QED BY <1>2, <1>3

LEMMA QuotientMonotonic ==
  ASSUME NEW a \in Nat, NEW b \in Nat, a <= b
  PROVE  a \div StepUs <= b \div StepUs
<1> DEFINE m == a \div StepUs
           n == b \div StepUs
<1>1. StepUs \in Nat \ {0}
  BY Constants
<1>2. m \in Nat /\ n \in Nat /\ StepUs * m <= a /\ b < StepUs * n + StepUs
  BY <1>1
<1> HIDE DEF m, n
<1>3. SUFFICES ASSUME n + 1 <= m PROVE FALSE
  BY <1>2 DEF m, n
<1>4. StepUs * (n + 1) <= StepUs * m
  BY <1>2, <1>3, StepMonotonic
<1>5. StepUs * (n + 1) = StepUs * n + StepUs /\ StepUs * n \in Nat /\ StepUs * m \in Nat
  BY <1>1, <1>2
<1> QED BY <1>1, <1>2, <1>4, <1>5

LEMMA RoundedType ==
  ASSUME NEW d \in Nat
  PROVE  Rounded(d) \in Nat
<1>1. d + StepUs - 1 \in Nat
  BY Constants
<1> QED BY <1>1, Whole DEF Rounded

\* A run lets at least no time pass, and at most what was asked, rounded up.
LEMMA RunForBounds ==
  ASSUME clock \in Nat, NEW d \in Nat
  PROVE  /\ RunFor(d) \in Nat /\ clock <= RunFor(d)
         /\ RunFor(d) <= clock + Rounded(d)
<1> DEFINE until == Plus(clock, d)
<1>1. until \in Nat /\ until <= clock + d
  BY Constants DEF Plus
<1> HIDE DEF until
<1>2. RunFor(d) = RunTo(until)
  BY DEF RunFor, until
<1>3. CASE until <= clock
  BY <1>2, <1>3, RoundedType DEF RunTo
<1>4. CASE ~(until <= clock)
  <2> DEFINE a == until - clock + StepUs - 1
             b == d + StepUs - 1
  <2>1. a \in Nat /\ b \in Nat /\ a <= b
    BY <1>1, <1>4, Constants
  <2>2. RunTo(until) = clock + StepUs * (a \div StepUs)
    BY <1>4 DEF RunTo
  <2>3. Rounded(d) = StepUs * (b \div StepUs)
    BY DEF Rounded
  <2> HIDE DEF a, b
  <2>4. StepUs * (a \div StepUs) <= StepUs * (b \div StepUs)
    BY <2>1, Whole, QuotientMonotonic, StepMonotonic
  <2> QED BY <1>2, <2>1, <2>2, <2>3, <2>4, Whole
<1> QED BY <1>3, <1>4

\* A firmware that panics within a run stops the clock before its end.
LEMMA PanicBounds ==
  ASSUME clock \in Nat, NEW d \in Nat, PanicsWithin(d)
  PROVE  /\ clock' \in Nat /\ clock' <= clock + Rounded(d)
         /\ StepFails(clock')
         /\ \E until : VehicleRuns(until)
<1>1. PICK n \in 0 .. (RunFor(d) - clock) \div StepUs - 1 :
        /\ clock' = clock + n * StepUs
        /\ VehicleRuns(clock' + StepUs)
        /\ StepFails(clock')
  BY DEF PanicsWithin
<1> DEFINE a == RunFor(d) - clock
           q == a \div StepUs
<1>2. a \in Nat /\ RunFor(d) <= clock + Rounded(d) /\ RunFor(d) = clock + a
  BY RunForBounds
<1> HIDE DEF a
<1>3. q \in Nat /\ StepUs * q <= a /\ StepUs * q \in Nat
  BY <1>2, Whole
<1>4. n \in 0 .. q - 1
  BY DEF a
<1> HIDE DEF q
<1>5. n \in Nat /\ n <= q
  BY <1>3, <1>4
<1>6. StepUs * n <= StepUs * q
  BY <1>3, <1>5, StepMonotonic
<1>7. StepUs * n \in Nat /\ n * StepUs = StepUs * n
  BY <1>5, Constants
<1>8. Rounded(d) \in Nat
  BY RoundedType
<1>9. clock' \in Nat /\ clock' <= clock + Rounded(d)
  BY <1>1, <1>2, <1>3, <1>6, <1>7, <1>8
<1> QED BY <1>1, <1>9

-----------------------------------------------------------------------------
(* The files.                                                              *)

LEMMA FileFacts ==
  ASSUME suite \in Suites, NEW i \in 1 .. Len(suite)
  PROVE  /\ IsFile(suite[i]) /\ IsDuration(suite[i].timeout)
         /\ Len(suite[i].steps) \in Nat /\ DOMAIN suite[i].steps = 1 .. Len(suite[i].steps)
         /\ \A s \in 1 .. Len(suite[i].steps) : IsStep(suite[i].steps[s])
<1>1. suite \in Seq({suite[j] : j \in DOMAIN suite}) /\ \A j \in DOMAIN suite : IsFile(suite[j])
  BY FilesAssumption
<1>2. i \in DOMAIN suite
  BY <1>1
<1>3. IsFile(suite[i])
  BY <1>1, <1>2
<1>4. suite[i].steps \in Seq({suite[i].steps[s] : s \in DOMAIN suite[i].steps})
      /\ \A s \in DOMAIN suite[i].steps : IsStep(suite[i].steps[s])
  BY <1>3 DEF IsFile
<1>5. Len(suite[i].steps) \in Nat /\ DOMAIN suite[i].steps = 1 .. Len(suite[i].steps)
  BY <1>4
<1> QED BY <1>3, <1>4, <1>5 DEF IsFile

LEMMA SuiteLength ==
  ASSUME suite \in Suites
  PROVE  Len(suite) \in Nat
<1>1. suite \in Seq({suite[j] : j \in DOMAIN suite})
  BY FilesAssumption
<1> QED BY <1>1

\* What the loader has checked.
LEMMA LoadedStep ==
  ASSUME NEW file, IsFile(file), Loads(file), NEW s \in 1 .. Len(file.steps),
         DOMAIN file.steps = 1 .. Len(file.steps)
  PROVE  LET step == file.steps[s]
         IN  /\ step.op = "wait" => Us(step.time) \in Nat
             /\ step.op = "expect" => Within(step) \in Nat
             /\ step.op = "send" => step.value # None
             /\ step.op = "fault" => FaultComplete(step)
<1> DEFINE step == file.steps[s]
<1>1. IsStep(step) /\ (step.op = "wait" => Parses(step.time))
      /\ (step.op = "expect" => ValidExpect(step)) /\ (step.op = "fault" => ValidFault(step))
  BY DEF IsFile, Loads
<1> HIDE DEF step
<1>2. step.op = "wait" => Us(step.time) \in Nat
  BY <1>1, UsType DEF IsStep
<1>3. ASSUME step.op = "expect" PROVE Within(step) \in Nat
  <2>1. IsExpect(step) /\ OptionParses(step.within)
    BY <1>1, <1>3 DEF IsStep, ValidExpect
  <2>2. CASE step.within = None
    BY <2>2 DEF Within
  <2>3. CASE step.within # None
    BY <2>1, <2>3, UsType DEF Within, IsExpect, OptionParses
  <2> QED BY <2>2, <2>3
<1>4. step.op = "send" => step.value # None
  BY <1>1 DEF IsStep, IsSend
<1>5. step.op = "fault" => FaultComplete(step)
  BY <1>1 DEF ValidFault, FaultComplete
<1> QED BY <1>2, <1>3, <1>4, <1>5 DEF step

-----------------------------------------------------------------------------
(* The invariant.                                                          *)

Results == [test : Nat, passed : BOOLEAN, duration : Int, ran : Int]

\* What is said of the i-th result.
Sound(files, i, r) ==
  LET file == files[i]
  IN  /\ i \in 1 .. Len(files)
      /\ r.test = i
      /\ r.passed => r.duration <= Us(file.timeout) /\ r.ran = Len(file.steps)
      /\ \/ r.duration <= Us(file.timeout)
         \/ \E s \in 1 .. Len(file.steps) :
              r.duration <= Us(file.timeout) + StepReach(file.steps[s])

ResultsSound ==
  /\ results \in Seq(Results)
  /\ Len(results) = test - 1
  /\ \A i \in 1 .. Len(results) : Sound(suite, i, results[i])

\* Where the runner is.
Running == pc \in {"step", "poll"}

Placed ==
  /\ suite \in Suites
  /\ test \in 1 .. Len(suite) + 1
  /\ pc \in {"load", "reset", "step", "poll", "done", "aborted"}
  /\ pc \in {"reset", "step", "poll"} => test <= Len(suite) /\ Loads(File)
  /\ pc = "done" => test = Len(suite) + 1
  /\ clock \in Nat
  /\ Running => /\ start = 0 /\ deadline \in Nat /\ deadline = Us(File.timeout)
                /\ stepNo \in 1 .. Len(File.steps) + 1
                /\ clock <= deadline
  /\ pc = "poll" => /\ stepNo <= Len(File.steps) /\ CurrentStep.op = "expect"
                    /\ pollEnd \in Int /\ pollEnd <= deadline

\* What the recorder shows and what was recorded agree.
Recorded == seen = None <=> arrivals = {}

IInv == Placed /\ ResultsSound /\ Recorded /\ PresenceKnown

LEMMA InitInv == Init => IInv
<1> SUFFICES ASSUME Init PROVE IInv
  OBVIOUS
<1>1. /\ suite \in Suites /\ pc = "load" /\ test = 1 /\ clock = 0 /\ results = <<>>
      /\ seen = None /\ arrivals = {} /\ claims = {}
  BY DEF Init
<1>2. Placed
  BY <1>1, SuiteLength DEF Placed, Running
<1>3. ResultsSound
  BY <1>1 DEF ResultsSound
<1> QED BY <1>1, <1>2, <1>3 DEF IInv, Recorded, PresenceKnown

-----------------------------------------------------------------------------
(* The end of a test, and the end of a step.                               *)

\* A test that runs is within its budget, and a verdict at the time t is sound
\* when t is at most one step's reach past the budget.
LEMMA EndTestKeeps ==
  ASSUME IInv, Running, NEW passed \in BOOLEAN, NEW t \in Nat, EndTest(passed, t),
         suite' = suite,
         passed => t <= deadline /\ stepNo = Len(File.steps) + 1,
         \/ t <= deadline
         \/ \E s \in 1 .. Len(File.steps) : t <= deadline + StepReach(File.steps[s])
  PROVE  ResultsSound' /\ pc' = "load" /\ test' \in 1 .. Len(suite) + 1
<1> DEFINE r == [test |-> test, passed |-> passed, duration |-> t - start, ran |-> stepNo - 1]
<1>1. /\ test \in 1 .. Len(suite) /\ start = 0 /\ stepNo \in 1 .. Len(File.steps) + 1
      /\ suite \in Suites /\ deadline = Us(File.timeout)
  <2>1. Len(suite) \in Nat
    BY SuiteLength DEF IInv, Placed
  <2> QED BY <2>1 DEF IInv, Placed, Running
<1>2. Len(File.steps) \in Nat
  BY <1>1, FileFacts DEF File
<1>3. r \in Results
  BY <1>1, <1>2 DEF Results
<1>4. Sound(suite, test, r)
  BY <1>1, <1>2 DEF Sound, File
<1>5. results' = Append(results, r) /\ test' = test + 1 /\ pc' = "load"
  BY DEF EndTest
<1>6. results \in Seq(Results) /\ Len(results) = test - 1
      /\ \A i \in 1 .. Len(results) : Sound(suite, i, results[i])
  BY DEF IInv, ResultsSound
<1> HIDE DEF r
<1>7. /\ results' \in Seq(Results) /\ Len(results') = test
      /\ results'[test] = r
      /\ \A i \in 1 .. Len(results) : results'[i] = results[i]
  BY <1>1, <1>3, <1>5, <1>6
<1>8. ASSUME NEW i \in 1 .. test
      PROVE  Sound(suite, i, results'[i])
  <2>1. CASE i = test
    BY <1>4, <1>7, <2>1
  <2>2. CASE i # test
    <3>1. i \in 1 .. Len(results)
      BY <1>1, <1>6, <2>2
    <3> QED BY <1>6, <1>7, <3>1
  <2> QED BY <2>1, <2>2
<1>9. test' - 1 = test
  BY <1>1, <1>5
<1>10. ResultsSound'
  BY <1>7, <1>8, <1>9 DEF ResultsSound
<1>11. Len(suite) \in Nat
  BY <1>1, SuiteLength
<1> QED BY <1>1, <1>5, <1>10, <1>11

\* What every action finds that runs a step of the current test.
LEMMA RunningFacts ==
  ASSUME IInv, Running
  PROVE  /\ suite \in Suites /\ Len(suite) \in Nat /\ test \in 1 .. Len(suite)
         /\ IsFile(File) /\ Loads(File) /\ Len(File.steps) \in Nat
         /\ DOMAIN File.steps = 1 .. Len(File.steps)
         /\ clock \in Nat /\ start = 0 /\ deadline \in Nat /\ deadline = Us(File.timeout)
         /\ clock <= deadline /\ stepNo \in 1 .. Len(File.steps) + 1
<1>1. suite \in Suites /\ test \in 1 .. Len(suite) + 1 /\ test <= Len(suite) /\ Loads(File)
  BY DEF IInv, Placed, Running
<1>2. Len(suite) \in Nat
  BY <1>1, SuiteLength
<1>3. test \in 1 .. Len(suite)
  BY <1>1, <1>2
<1>4. IsFile(File) /\ Len(File.steps) \in Nat /\ DOMAIN File.steps = 1 .. Len(File.steps)
  BY <1>1, <1>3, FileFacts DEF File
<1> QED BY <1>1, <1>2, <1>3, <1>4 DEF IInv, Placed

LEMMA StepFailsKeeps ==
  ASSUME IInv, Running, StepFails(clock'), clock' \in Nat, suite' = suite,
         \/ clock' <= deadline
         \/ \E s \in 1 .. Len(File.steps) : clock' <= deadline + StepReach(File.steps[s])
  PROVE  Placed' /\ ResultsSound'
<1>1. EndTest(FALSE, clock')
  BY DEF StepFails
<1>2. ResultsSound' /\ pc' = "load" /\ test' \in 1 .. Len(suite) + 1
  BY <1>1, EndTestKeeps
<1>3. suite \in Suites
  BY RunningFacts
<1> QED BY <1>2, <1>3 DEF Placed, Running

LEMMA StepPassesKeeps ==
  ASSUME IInv, Running, StepPasses(clock'), clock' \in Nat, suite' = suite, start' = start,
         deadline' = deadline, stepNo \in 1 .. Len(File.steps),
         \/ clock' <= deadline
         \/ \E s \in 1 .. Len(File.steps) : clock' <= deadline + StepReach(File.steps[s])
  PROVE  Placed' /\ ResultsSound'
<1>1. CASE clock' > deadline
  <2>1. StepFails(clock')
    BY <1>1 DEF StepPasses, StepFails
  <2> QED BY <2>1, StepFailsKeeps
<1>2. CASE ~(clock' > deadline)
  <2>1. stepNo' = stepNo + 1 /\ pc' = "step" /\ test' = test /\ results' = results
    BY <1>2 DEF StepPasses
  <2>2. clock' <= deadline
    BY <1>2, RunningFacts
  <2>3. ResultsSound'
    BY <2>1 DEF IInv, ResultsSound
  <2>4. stepNo' \in 1 .. Len(File.steps) + 1
    BY <2>1, RunningFacts
  <2>5. Placed'
    BY <2>1, <2>2, <2>4, RunningFacts DEF Placed, Running, File
  <2> QED BY <2>3, <2>5
<1> QED BY <1>1, <1>2

-----------------------------------------------------------------------------
(* The actions.                                                            *)

LEMMA VehicleKeeps ==
  ASSUME IInv, NEW until, VehicleRuns(until)
  PROVE  Recorded'
BY Constants DEF IInv, Recorded, VehicleRuns

\* run_suite between the tests, and everything that aborts it.
LEMMA SuiteKeeps ==
  ASSUME IInv,
         \/ LoadTest \/ SuiteDone \/ ResetFails \/ SendAborts \/ ForeignStepAborts
  PROVE  IInv'
<1>1. UNCHANGED <<runner, target, claims>>
  BY DEF LoadTest, SuiteDone, ResetFails, SendAborts, ForeignStepAborts
<1>2. Recorded' /\ PresenceKnown' /\ ResultsSound'
  BY <1>1 DEF IInv, Recorded, PresenceKnown, ResultsSound, runner, target
<1>3. CASE LoadTest
  <2>1. pc' = IF Loads(File) THEN "reset" ELSE "aborted"
    BY <1>3 DEF LoadTest
  <2>2. test <= Len(suite)
    BY <1>3 DEF LoadTest
  <2>3. Placed'
    BY <1>1, <2>1, <2>2 DEF IInv, Placed, Running, File, runner, target
  <2> QED BY <1>2, <2>3 DEF IInv
<1>4. CASE SuiteDone
  <2>1. pc' = "done" /\ test > Len(suite) /\ Len(suite) \in Nat
    BY <1>4, SuiteLength DEF SuiteDone, IInv, Placed
  <2>2. Placed'
    BY <1>1, <2>1 DEF IInv, Placed, Running, runner, target
  <2> QED BY <1>2, <2>2 DEF IInv
<1>5. CASE ResetFails \/ SendAborts \/ ForeignStepAborts
  <2>1. pc' = "aborted"
    BY <1>5 DEF ResetFails, SendAborts, ForeignStepAborts
  <2>2. Placed'
    BY <1>1, <2>1 DEF IInv, Placed, Running, runner, target
  <2> QED BY <1>2, <2>2 DEF IInv
<1> QED BY <1>3, <1>4, <1>5

LEMMA ResetKeeps ==
  ASSUME IInv, Reset
  PROVE  IInv'
<1>1. /\ suite \in Suites /\ test \in 1 .. Len(suite) + 1 /\ test <= Len(suite)
      /\ Loads(File) /\ Len(suite) \in Nat
  BY SuiteLength DEF Reset, IInv, Placed
<1>2. IsDuration(File.timeout) /\ Parses(File.timeout) /\ Len(File.steps) \in Nat
  BY <1>1, FileFacts DEF Reset, File
<1>3. Us(File.timeout) \in Nat /\ Us(File.timeout) < Top
  BY <1>2, UsType
<1>4. SaturatingPlus(0, Us(File.timeout)) = Us(File.timeout)
  BY <1>3 DEF SaturatingPlus
<1>5. /\ suite' = suite /\ test' = test /\ pc' = "step" /\ clock' = 0 /\ start' = 0
      /\ stepNo' = 1 /\ deadline' = Us(File.timeout) /\ results' = results
  BY <1>4 DEF Reset, Rebuild, NewSimulation
<1>6. Placed'
  BY <1>1, <1>2, <1>3, <1>5 DEF Placed, Running, File
<1>7. ResultsSound'
  BY <1>5 DEF IInv, ResultsSound
<1>8. Recorded' /\ PresenceKnown'
  BY DEF Reset, Rebuild, NewSimulation, Recorded, PresenceKnown
<1> QED BY <1>6, <1>7, <1>8 DEF IInv

LEMMA TestDoneKeeps ==
  ASSUME IInv, TestDone
  PROVE  IInv'
<1>1. Running /\ EndTest(TRUE, clock) /\ stepNo > Len(File.steps)
      /\ UNCHANGED <<suite, clock, seen, arrivals, claims>>
  BY DEF TestDone, Running, target
<1>2. clock \in Nat /\ clock <= deadline /\ stepNo = Len(File.steps) + 1 /\ suite \in Suites
  BY <1>1, RunningFacts
<1>3. ResultsSound' /\ pc' = "load" /\ test' \in 1 .. Len(suite) + 1
  BY <1>1, <1>2, EndTestKeeps
<1>4. Placed'
  BY <1>1, <1>2, <1>3 DEF Placed, Running
<1>5. Recorded' /\ PresenceKnown'
  BY <1>1 DEF IInv, Recorded, PresenceKnown
<1> QED BY <1>3, <1>4, <1>5 DEF IInv

\* The steps that take no time, and those that fail at once.
LEMMA InstantStepKeeps ==
  ASSUME IInv,
         SendStep \/ SetSignalStep \/ FaultStep \/ ForeignStepFails \/ SendPanics
  PROVE  IInv'
<1>1. /\ Running /\ stepNo <= Len(File.steps)
      /\ UNCHANGED <<suite, start, deadline, clock, claims>>
  BY DEF SendStep, SetSignalStep, FaultStep, ForeignStepFails, SendPanics,
         AtForeignStep, AtOwnStep, AtStep, Running, target
<1>2. /\ clock' \in Nat /\ clock' <= deadline /\ stepNo \in 1 .. Len(File.steps)
      /\ clock' = clock
  BY <1>1, RunningFacts
<1>3. FaultStep => FaultComplete(CurrentStep) /\ CurrentStep.op = "fault"
  <2>1. ASSUME FaultStep PROVE FaultComplete(CurrentStep) /\ CurrentStep.op = "fault"
    <3>1. CurrentStep.op = "fault"
      BY <2>1 DEF FaultStep, AtStep
    <3> QED BY <1>1, <1>2, <3>1, RunningFacts, LoadedStep DEF CurrentStep
  <2> QED BY <2>1
<1>4. CASE StepPasses(clock) \/ StepFails(clock)
  <2>1. StepPasses(clock') \/ StepFails(clock')
    BY <1>2, <1>4
  <2>2. Placed' /\ ResultsSound'
    BY <1>1, <1>2, <2>1, StepPassesKeeps, StepFailsKeeps
  <2>3. PresenceKnown'
    BY <1>1 DEF IInv, PresenceKnown
  <2>4. Recorded'
    <3>1. CASE SendStep \/ SendPanics
      <4>1. CurrentStep.op = "send"
        BY <3>1 DEF SendStep, SendPanics, AtOwnStep, AtStep
      <4>2. CurrentStep.value # None
        BY <1>1, <1>2, <4>1, RunningFacts, LoadedStep DEF CurrentStep
      <4> QED BY <3>1, <4>2 DEF SendStep, SendPanics, Recorded
    <3>2. CASE SetSignalStep \/ FaultStep \/ ForeignStepFails
      <4>1. UNCHANGED <<seen, arrivals>>
        BY <3>2 DEF SetSignalStep, FaultStep, ForeignStepFails, target
      <4> QED BY <4>1 DEF IInv, Recorded
    <3> QED BY <3>1, <3>2
  <2> QED BY <2>2, <2>3, <2>4 DEF IInv
<1>5. StepPasses(clock) \/ StepFails(clock)
  BY <1>3 DEF SendStep, SetSignalStep, FaultStep, ForeignStepFails, SendPanics
<1> QED BY <1>4, <1>5

\* The reach of a step that lets time pass.
LEMMA WaitReach ==
  ASSUME IInv, AtStep("wait")
  PROVE  /\ Running /\ stepNo \in 1 .. Len(File.steps)
         /\ Us(CurrentStep.time) \in Nat
         /\ StepReach(CurrentStep) = Rounded(Us(CurrentStep.time))
<1>1. Running /\ stepNo <= Len(File.steps) /\ CurrentStep.op = "wait"
  BY DEF AtStep, Running
<1>2. stepNo \in 1 .. Len(File.steps)
  BY <1>1, RunningFacts
<1>3. Us(CurrentStep.time) \in Nat
  BY <1>1, <1>2, RunningFacts, LoadedStep DEF CurrentStep
<1> QED BY <1>1, <1>2, <1>3 DEF StepReach

LEMMA PollReach ==
  ASSUME IInv, pc = "poll"
  PROVE  /\ Running /\ stepNo \in 1 .. Len(File.steps)
         /\ StepReach(CurrentStep) = Rounded(PollUs)
         /\ pollEnd \in Int /\ pollEnd <= deadline
<1>1. Running /\ stepNo <= Len(File.steps) /\ CurrentStep.op = "expect"
      /\ pollEnd \in Int /\ pollEnd <= deadline
  BY DEF Running, IInv, Placed
<1>2. stepNo \in 1 .. Len(File.steps)
  BY <1>1, RunningFacts
<1> QED BY <1>1, <1>2 DEF StepReach

\* Time passes for at most the reach of the current step.
LEMMA InReach ==
  ASSUME IInv, Running, stepNo \in 1 .. Len(File.steps), NEW d \in Nat,
         StepReach(CurrentStep) = Rounded(d), NEW t \in Nat, t <= clock + Rounded(d)
  PROVE  \E s \in 1 .. Len(File.steps) : t <= deadline + StepReach(File.steps[s])
<1>1. clock \in Nat /\ deadline \in Nat /\ clock <= deadline /\ Rounded(d) \in Nat
  BY RunningFacts, RoundedType
<1>2. t <= deadline + StepReach(CurrentStep)
  BY <1>1
<1> QED BY <1>2 DEF CurrentStep

LEMMA WaitStepKeeps ==
  ASSUME IInv, WaitStep
  PROVE  IInv'
<1>1. /\ AtStep("wait") /\ clock' = RunFor(Us(CurrentStep.time)) /\ StepPasses(clock')
      /\ VehicleRuns(clock')
      /\ UNCHANGED <<suite, start, deadline, claims>>
  BY DEF WaitStep
<1>2. clock \in Nat
  BY DEF IInv, Placed
<1>3. clock' \in Nat /\ clock' <= clock + Rounded(Us(CurrentStep.time))
  BY <1>1, <1>2, WaitReach, RunForBounds
<1>4. \E s \in 1 .. Len(File.steps) : clock' <= deadline + StepReach(File.steps[s])
  BY <1>1, <1>3, WaitReach, InReach
<1>5. Placed' /\ ResultsSound'
  BY <1>1, <1>3, <1>4, WaitReach, StepPassesKeeps
<1>6. Recorded' /\ PresenceKnown'
  BY <1>1, VehicleKeeps DEF IInv, PresenceKnown
<1> QED BY <1>5, <1>6 DEF IInv

LEMMA PanicsKeep ==
  ASSUME IInv, WaitPanics \/ PollPanics
  PROVE  IInv'
<1>1. PICK d \in Nat :
        PanicsWithin(d) /\ Running /\ stepNo \in 1 .. Len(File.steps)
        /\ StepReach(CurrentStep) = Rounded(d)
  <2>1. CASE WaitPanics
    BY <2>1, WaitReach DEF WaitPanics
  <2>2. CASE PollPanics
    BY <2>2, PollReach, Constants DEF PollPanics
  <2> QED BY <2>1, <2>2
<1>2. UNCHANGED <<suite, claims>>
  BY DEF WaitPanics, PollPanics
<1>3. clock \in Nat
  BY DEF IInv, Placed
<1>4. /\ clock' \in Nat /\ clock' <= clock + Rounded(d) /\ StepFails(clock')
      /\ \E until : VehicleRuns(until)
  BY <1>1, <1>3, PanicBounds
<1>5. \E s \in 1 .. Len(File.steps) : clock' <= deadline + StepReach(File.steps[s])
  BY <1>1, <1>4, InReach
<1>6. Placed' /\ ResultsSound'
  BY <1>1, <1>2, <1>4, <1>5, StepFailsKeeps
<1>7. Recorded' /\ PresenceKnown'
  BY <1>2, <1>4, VehicleKeeps DEF IInv, PresenceKnown
<1> QED BY <1>6, <1>7 DEF IInv

LEMMA BeginExpectKeeps ==
  ASSUME IInv, BeginExpect
  PROVE  IInv'
<1>1. /\ pc = "step" /\ Running /\ stepNo <= Len(File.steps) /\ CurrentStep.op = "expect"
      /\ pollEnd' = Lesser(SaturatingPlus(clock, Within(CurrentStep)), deadline)
      /\ pc' = "poll"
      /\ UNCHANGED <<suite, test, stepNo, start, deadline, results, target, claims>>
  BY DEF BeginExpect, AtExpect, AtOwnStep, AtStep, Running
<1>2. stepNo \in 1 .. Len(File.steps)
  BY <1>1, RunningFacts
<1>3. Within(CurrentStep) \in Nat
  BY <1>1, <1>2, RunningFacts, LoadedStep DEF CurrentStep
<1>4. pollEnd' \in Int /\ pollEnd' <= deadline
  <2>1. clock \in Nat /\ deadline \in Nat
    BY <1>1, RunningFacts
  <2>2. SaturatingPlus(clock, Within(CurrentStep)) \in Int
    BY <1>3, <2>1, Constants DEF SaturatingPlus
  <2> QED BY <1>1, <2>1, <2>2 DEF Lesser
<1>5. clock' = clock /\ seen' = seen /\ arrivals' = arrivals
  BY <1>1 DEF target
<1>6. Placed'
  BY <1>1, <1>2, <1>4, <1>5, RunningFacts DEF Placed, Running, File, CurrentStep
<1>7. ResultsSound' /\ Recorded' /\ PresenceKnown'
  BY <1>1, <1>5 DEF IInv, ResultsSound, Recorded, PresenceKnown
<1> QED BY <1>6, <1>7 DEF IInv

\* A presence expectation that holds knows what was recorded.
LEMMA HoldsKnows ==
  ASSUME NEW step, NEW frame, NEW known, Holds(step, frame), frame = None <=> known = {}
  PROVE  /\ EffectivePresent(step) = FALSE => known = {}
         /\ EffectivePresent(step) = TRUE => known # {}
<1>1. ASSUME EffectivePresent(step) \in BOOLEAN
      PROVE  EffectivePresent(step) = (frame # None)
  BY <1>1, Constants DEF Holds
<1> QED BY <1>1

LEMMA PollKeeps ==
  ASSUME IInv, Poll
  PROVE  IInv'
<1>1. /\ pc = "poll" /\ clock' = RunFor(PollUs) /\ VehicleRuns(clock')
      /\ UNCHANGED <<suite, start, deadline, pollEnd>>
  BY DEF Poll
<1>2. clock \in Nat /\ PollUs \in Nat
  BY Constants DEF IInv, Placed
<1>3. clock' \in Nat /\ clock' <= clock + Rounded(PollUs)
  BY <1>1, <1>2, RunForBounds
<1>4. \E s \in 1 .. Len(File.steps) : clock' <= deadline + StepReach(File.steps[s])
  BY <1>1, <1>2, <1>3, PollReach, InReach
<1>5. Recorded'
  BY <1>1, VehicleKeeps
<1>6. CASE StepFails(clock') /\ UNCHANGED claims
  <2>1. Placed' /\ ResultsSound'
    BY <1>1, <1>3, <1>4, <1>6, PollReach, StepFailsKeeps
  <2>2. PresenceKnown'
    BY <1>6 DEF IInv, PresenceKnown
  <2> QED BY <1>5, <2>1, <2>2 DEF IInv
<1>7. CASE /\ Holds(CurrentStep, seen')
           /\ StepPasses(clock')
           /\ claims' = claims \cup
                {[present |-> EffectivePresent(CurrentStep), from |-> clock,
                  within |-> Within(CurrentStep), known |-> arrivals']}
  <2>1. Placed' /\ ResultsSound'
    BY <1>1, <1>3, <1>4, <1>7, PollReach, StepPassesKeeps
  <2>2. seen' = None <=> arrivals' = {}
    BY <1>5 DEF Recorded
  <2>3. /\ EffectivePresent(CurrentStep) = FALSE => arrivals' = {}
        /\ EffectivePresent(CurrentStep) = TRUE => arrivals' # {}
    BY <1>7, <2>2, HoldsKnows
  <2>4. PresenceKnown'
    BY <1>7, <2>3 DEF IInv, PresenceKnown
  <2> QED BY <1>5, <2>1, <2>4 DEF IInv
<1>8. CASE clock' < pollEnd /\ UNCHANGED <<pc, test, stepNo, results, claims>>
  <2>1. pollEnd \in Int /\ pollEnd <= deadline /\ deadline \in Nat
    BY <1>1, PollReach, RunningFacts
  <2>2. clock' <= deadline
    BY <1>3, <1>8, <2>1
  <2>3. Placed'
    BY <1>1, <1>3, <1>8, <2>2 DEF IInv, Placed, Running, File, CurrentStep
  <2>4. ResultsSound' /\ PresenceKnown'
    BY <1>1, <1>8 DEF IInv, ResultsSound, PresenceKnown
  <2> QED BY <1>5, <2>3, <2>4 DEF IInv
<1> QED BY <1>6, <1>7, <1>8 DEF Poll

LEMMA StutterKeeps ==
  ASSUME IInv, UNCHANGED vars
  PROVE  IInv'
BY DEF IInv, Placed, ResultsSound, Recorded, PresenceKnown, Running, File,
       CurrentStep, vars

\* The invariant holds throughout every run of a suite (run_suite, runner.rs).
THEOREM Inductive == Spec => []IInv
<1>1. IInv /\ [Next]_vars => IInv'
  <2> SUFFICES ASSUME IInv, [Next]_vars PROVE IInv'
    OBVIOUS
  <2>1. CASE LoadTest \/ SuiteDone \/ ResetFails \/ SendAborts \/ ForeignStepAborts
    BY <2>1, SuiteKeeps
  <2>2. CASE Reset
    BY <2>2, ResetKeeps
  <2>3. CASE TestDone
    BY <2>3, TestDoneKeeps
  <2>4. CASE SendStep \/ SetSignalStep \/ FaultStep \/ ForeignStepFails \/ SendPanics
    BY <2>4, InstantStepKeeps
  <2>5. CASE WaitStep
    BY <2>5, WaitStepKeeps
  <2>6. CASE WaitPanics \/ PollPanics
    BY <2>6, PanicsKeep
  <2>7. CASE BeginExpect
    BY <2>7, BeginExpectKeeps
  <2>8. CASE Poll
    BY <2>8, PollKeeps
  <2>9. CASE Returned \/ UNCHANGED vars
    BY <2>9, StutterKeeps DEF Returned
  <2> QED BY <2>1, <2>2, <2>3, <2>4, <2>5, <2>6, <2>7, <2>8, <2>9 DEF Next
<1> QED BY <1>1, InitInv, PTL DEF Spec

-----------------------------------------------------------------------------
(* The theorems.                                                           *)

\* A test that passes ended within its time budget, for every suite, every poll
\* period and step, and whatever arrives while it waits (runner.rs:193).
THEOREM PassesInBudget == Spec => []PassedInBudget
<1>1. IInv => PassedInBudget
  <2> SUFFICES ASSUME IInv, NEW i \in DOMAIN results, results[i].passed
               PROVE  results[i].duration <= Us(suite[results[i].test].timeout)
    BY DEF PassedInBudget
  <2>1. i \in 1 .. Len(results) /\ Sound(suite, i, results[i])
    BY DEF IInv, ResultsSound
  <2> QED BY <2>1 DEF Sound
<1> QED BY <1>1, Inductive, PTL

\* No test outruns its budget by more than one wait or one poll of its own.
THEOREM OverrunIsBounded == Spec => []OverrunBounded
<1>1. IInv => OverrunBounded
  <2> SUFFICES ASSUME IInv, NEW i \in DOMAIN results
               PROVE  LET file == suite[results[i].test]
                      IN  \/ results[i].duration <= Us(file.timeout)
                          \/ \E s \in DOMAIN file.steps :
                               results[i].duration <= Us(file.timeout) + StepReach(file.steps[s])
    BY DEF OverrunBounded
  <2>1. i \in 1 .. Len(results) /\ Sound(suite, i, results[i]) /\ suite \in Suites
    BY DEF IInv, ResultsSound, Placed
  <2>2. i \in 1 .. Len(suite) /\ results[i].test = i
        /\ \/ results[i].duration <= Us(suite[i].timeout)
           \/ \E s \in 1 .. Len(suite[i].steps) :
                results[i].duration <= Us(suite[i].timeout) + StepReach(suite[i].steps[s])
    BY <2>1 DEF Sound
  <2>3. DOMAIN suite[i].steps = 1 .. Len(suite[i].steps)
    BY <2>1, <2>2, FileFacts
  <2> QED BY <2>2, <2>3
<1> QED BY <1>1, Inductive, PTL

\* A suite that returns results reports every file once, in order, and a test
\* that passed has run all its steps.
THEOREM EveryTestIsReported == Spec => []EveryTestReported
<1>1. IInv => EveryTestReported
  <2> SUFFICES ASSUME IInv, pc = "done"
               PROVE  /\ Len(results) = Len(suite)
                      /\ \A i \in DOMAIN results :
                           /\ results[i].test = i
                           /\ results[i].passed => results[i].ran = Len(suite[i].steps)
    BY DEF EveryTestReported
  <2>1. Len(results) = test - 1 /\ test = Len(suite) + 1 /\ Len(suite) \in Nat
    BY SuiteLength DEF IInv, ResultsSound, Placed
  <2>2. ASSUME NEW i \in DOMAIN results
        PROVE  Sound(suite, i, results[i])
    BY DEF IInv, ResultsSound
  <2> QED BY <2>1, <2>2 DEF Sound
<1> QED BY <1>1, Inductive, PTL

\* A passed expectation of presence or absence speaks for the whole test so far:
\* it knows of every frame that was recorded since the reset.
THEOREM PresenceIsKnown == Spec => []PresenceKnown
<1>1. IInv => PresenceKnown
  BY DEF IInv
<1> QED BY <1>1, Inductive, PTL

\* No file that the loader accepts reaches the panic in fault_from_kind.
THEOREM NeverPanics == Spec => []StepsNeverPanic
<1>1. IInv => StepsNeverPanic
  BY DEF IInv, Placed, StepsNeverPanic
<1> QED BY <1>1, Inductive, PTL

-----------------------------------------------------------------------------
(* Isolation.  What the target holds is what the steps of the test put     *)
(* there, because it is so after every step of a test, and the test begins *)
(* with no step and a simulation that holds nothing.                       *)

RulesOwn ==
  /\ Len(faults) = Cardinality(Done("fault"))
  /\ \A s \in Done("fault") :
       Imposes(File.steps[s], faults[Cardinality({r \in Done("fault") : r <= s})])

OverrideOwn == override <=> Done("set") # {}
FramesOwn == (\E a \in arrivals : a.by = "test") <=> Done("send") # {}
TimeOwn ==
  clock > 0 \/ (\E a \in arrivals : a.by = "vehicle") =>
    Done("wait") \cup Done("expect") # {} \/ pc = "poll"

RuleList ==
  /\ faults \in Seq({faults[i] : i \in 1 .. Len(faults)})
  /\ \A i \in 1 .. Len(faults) : faults[i].added \in Nat

OwnInv ==
  Running => ~broken /\ RuleList /\ RulesOwn /\ OverrideOwn /\ FramesOwn /\ TimeOwn

LEMMA DoneFinite ==
  ASSUME NEW op, IInv, Running
  PROVE  IsFiniteSet(Done(op)) /\ Done(op) \subseteq 1 .. stepNo - 1 /\ stepNo \in Nat \ {0}
<1>1. stepNo \in Nat \ {0}
  BY RunningFacts
<1>2. IsFiniteSet(1 .. stepNo - 1)
  BY <1>1, FS_Interval
<1>3. Done(op) \subseteq 1 .. stepNo - 1
  BY DEF Done
<1> QED BY <1>1, <1>2, <1>3, FS_Subset

\* A step that passes is one more of its kind, and none of another; a step that
\* fails ends the test.
LEMMA StepDone ==
  ASSUME IInv, Running, NEW t, StepPasses(t), suite' = suite, Running'
  PROVE  /\ test' = test /\ stepNo' = stepNo + 1 /\ pc' = "step" /\ File' = File
         /\ \A op : Done(op)' = Done(op) \cup (IF CurrentStep.op = op THEN {stepNo} ELSE {})
<1>1. ~(t > deadline)
  BY DEF StepPasses, EndTest, Running
<1>2. test' = test /\ stepNo' = stepNo + 1 /\ pc' = "step"
  BY <1>1 DEF StepPasses
<1>3. File' = File
  BY <1>2 DEF File
<1>4. stepNo \in Nat \ {0}
  BY RunningFacts
<1>5. 1 .. stepNo' - 1 = (1 .. stepNo - 1) \cup {stepNo}
  BY <1>2, <1>4
<1>6. ASSUME NEW op
      PROVE  Done(op)' = Done(op) \cup (IF CurrentStep.op = op THEN {stepNo} ELSE {})
  <2>1. Done(op)' = {s \in 1 .. stepNo' - 1 : File'.steps[s].op = op}
    BY DEF Done
  <2> QED BY <1>3, <1>5, <2>1 DEF Done, CurrentStep
<1> QED BY <1>2, <1>3, <1>6

LEMMA FailsEnds ==
  ASSUME NEW t, StepFails(t)
  PROVE  ~Running'
BY DEF StepFails, EndTest, Running

\* A fault step that is done has its place among the rules.
LEMMA PlaceOfRule ==
  ASSUME IInv, Running, RulesOwn, NEW s \in Done("fault")
  PROVE  Cardinality({r \in Done("fault") : r <= s}) \in 1 .. Len(faults)
<1> DEFINE upTo == {r \in Done("fault") : r <= s}
<1>1. IsFiniteSet(Done("fault")) /\ upTo \in SUBSET Done("fault")
  BY DoneFinite
<1>2. s \in upTo
  <2>1. s \in Nat
    BY DoneFinite
  <2> QED BY <2>1
<1> HIDE DEF upTo
<1>3. IsFiniteSet(upTo) /\ Cardinality(upTo) <= Cardinality(Done("fault"))
  BY <1>1, FS_Subset
<1>4. Cardinality(upTo) \in Nat /\ Cardinality(upTo) # 0 /\ Cardinality(Done("fault")) \in Nat
  BY <1>1, <1>2, <1>3, FS_CardinalityType, FS_EmptySet
<1>5. Len(faults) = Cardinality(Done("fault"))
  BY DEF RulesOwn
<1> QED BY <1>3, <1>4, <1>5 DEF upTo

\* What Imposes says, apart from the time.
RuleFrom(step, f) ==
  /\ f.kind = step.kind
  /\ f.delay = FaultDelay(step)
  /\ f.for = FaultFor(step)
  /\ f.from = FaultStart(step, f.added)

LEMMA ImposesParts ==
  /\ \A step, f : Imposes(step, f) <=> RuleFrom(step, f) /\ f.added <= clock
  /\ \A step, f : Imposes(step, f)' <=> RuleFrom(step, f) /\ f.added <= clock'
BY DEF Imposes, RuleFrom

\* The rules stay the test's own as long as no other fault step is done.
LEMMA RulesKept ==
  ASSUME IInv, Running, RulesOwn, RuleList, faults' = faults, File' = File,
         Done("fault")' = Done("fault"), clock' \in Nat, clock <= clock'
  PROVE  RulesOwn' /\ RuleList'
<1>1. clock \in Nat
  BY DEF IInv, Placed
<1>2. RuleList'
  BY DEF RuleList
<1>3. ASSUME NEW s \in Done("fault")
      PROVE  LET f == faults[Cardinality({r \in Done("fault") : r <= s})]
             IN  RuleFrom(File.steps[s], f) /\ f.added <= clock'
  <2> DEFINE f == faults[Cardinality({r \in Done("fault") : r <= s})]
  <2>1. f.added \in Nat
    BY PlaceOfRule DEF RuleList
  <2>2. RuleFrom(File.steps[s], f) /\ f.added <= clock
    BY ImposesParts DEF RulesOwn
  <2> HIDE DEF f
  <2>3. f.added <= clock'
    BY <1>1, <2>1, <2>2
  <2> QED BY <2>2, <2>3 DEF f
<1>4. Len(faults') = Cardinality(Done("fault")')
  BY DEF RulesOwn
<1>5. ASSUME NEW s \in Done("fault")'
      PROVE  LET f == faults'[Cardinality({r \in Done("fault")' : r <= s})]
             IN  RuleFrom(File'.steps[s], f) /\ f.added <= clock'
  BY <1>3
<1> QED BY <1>2, <1>4, <1>5 DEF RulesOwn, Imposes, RuleFrom

\* A fault step that passes takes the next place among the rules.
LEMMA RuleAdded ==
  ASSUME IInv, Running, RulesOwn, RuleList, File' = File, clock' = clock,
         CurrentStep.op = "fault", Done("fault")' = Done("fault") \cup {stepNo},
         faults' = Append(faults, RuleOf(CurrentStep))
  PROVE  RulesOwn' /\ RuleList'
<1> DEFINE D == Done("fault")
           rule == RuleOf(CurrentStep)
<1>1. /\ IsFiniteSet(D) /\ D \subseteq 1 .. stepNo - 1 /\ stepNo \in Nat \ {0}
      /\ clock \in Nat
  BY DoneFinite DEF IInv, Placed
<1>2. Len(faults) = Cardinality(D) /\ Len(faults) \in Nat
  BY DEF RulesOwn, RuleList
<1>3. rule.added = clock /\ RuleFrom(CurrentStep, rule)
  BY DEF RuleOf, RuleFrom
<1>4. ASSUME NEW s \in D
      PROVE  LET k == Cardinality({r \in D : r <= s})
             IN  k \in 1 .. Len(faults) /\ RuleFrom(File.steps[s], faults[k]) /\ faults[k].added <= clock
  BY PlaceOfRule, ImposesParts DEF RulesOwn
<1>5. Done("fault")' = D \cup {stepNo} /\ faults' = Append(faults, rule)
  OBVIOUS
<1>6. faults \in Seq({faults[i] : i \in 1 .. Len(faults)})
      /\ \A i \in 1 .. Len(faults) : faults[i].added \in Nat
  BY DEF RuleList
<1>7. CurrentStep = File.steps[stepNo]
  BY DEF CurrentStep
<1> HIDE DEF D, rule
<1>8. stepNo \notin D
  BY <1>1
<1>9. Cardinality(D \cup {stepNo}) = Len(faults) + 1
  BY <1>1, <1>2, <1>8, FS_AddElement
<1>10. /\ Len(faults') = Len(faults) + 1
       /\ faults'[Len(faults) + 1] = rule
       /\ \A i \in 1 .. Len(faults) : faults'[i] = faults[i]
       /\ faults' \in Seq({faults'[i] : i \in 1 .. Len(faults')})
  <2> DEFINE R == {faults[i] : i \in 1 .. Len(faults)} \cup {rule}
  <2>1. faults \in Seq(R) /\ rule \in R
    BY <1>6
  <2> HIDE DEF R
  <2>2. /\ faults' \in Seq(R) /\ Len(faults') = Len(faults) + 1
        /\ faults'[Len(faults) + 1] = rule
        /\ \A i \in 1 .. Len(faults) : faults'[i] = faults[i]
    BY <1>5, <2>1
  <2>3. faults' \in Seq({faults'[i] : i \in 1 .. Len(faults')})
    BY <2>2
  <2> QED BY <2>2, <2>3
<1>11. RuleList'
  <2>1. ASSUME NEW i \in 1 .. Len(faults')
        PROVE  faults'[i].added \in Nat
    <3>1. CASE i = Len(faults) + 1
      BY <1>1, <1>3, <1>10, <3>1
    <3>2. CASE i # Len(faults) + 1
      <4>1. i \in 1 .. Len(faults)
        BY <1>2, <1>10, <3>2
      <4> QED BY <1>6, <1>10, <4>1
    <3> QED BY <3>1, <3>2
  <2> QED BY <1>10, <2>1 DEF RuleList
<1>12. ASSUME NEW s \in D \cup {stepNo}
       PROVE  LET k == Cardinality({r \in D \cup {stepNo} : r <= s})
              IN  RuleFrom(File.steps[s], faults'[k]) /\ faults'[k].added <= clock
  <2>1. CASE s = stepNo
    <3>1. \A r \in D \cup {stepNo} : r <= stepNo
      BY <1>1
    <3>2. {r \in D \cup {stepNo} : r <= stepNo} = D \cup {stepNo}
      BY <3>1
    <3>3. Cardinality({r \in D \cup {stepNo} : r <= s}) = Len(faults) + 1
      BY <1>9, <2>1, <3>2
    <3>4. rule.added <= clock
      BY <1>1, <1>3
    <3> QED BY <1>3, <1>7, <1>10, <2>1, <3>3, <3>4
  <2>2. CASE s # stepNo
    <3>1. s \in D
      BY <2>2
    <3>2. {r \in D \cup {stepNo} : r <= s} = {r \in D : r <= s}
      BY <1>1, <3>1
    <3> QED BY <1>4, <1>10, <3>1, <3>2
  <2> QED BY <2>1, <2>2
<1>13. Len(faults') = Cardinality(Done("fault")')
  BY <1>5, <1>9, <1>10
<1>14. ASSUME NEW s \in Done("fault")'
       PROVE  LET f == faults'[Cardinality({r \in Done("fault")' : r <= s})]
              IN  RuleFrom(File'.steps[s], f) /\ f.added <= clock'
  BY <1>5, <1>12
<1> QED BY <1>11, <1>13, <1>14 DEF RulesOwn, Imposes, RuleFrom

TestSent == \E a \in arrivals : a.by = "test"
VehicleSent == \E a \in arrivals : a.by = "vehicle"

\* A step that passes leaves what is there the test's own, if it adds rules,
\* overrides, frames and time only as a step of its kind does.
LEMMA StepOwn ==
  ASSUME IInv, OwnInv, Running, NEW t, StepPasses(t), suite' = suite, broken' = broken,
         clock' \in Nat, clock <= clock',
         IF CurrentStep.op = "fault"
         THEN faults' = Append(faults, RuleOf(CurrentStep)) /\ clock' = clock
         ELSE faults' = faults,
         override' <=> override \/ CurrentStep.op = "set",
         TestSent' <=> TestSent \/ CurrentStep.op = "send",
         clock' > 0 \/ VehicleSent' =>
           clock > 0 \/ VehicleSent \/ CurrentStep.op \in {"wait", "expect"}
  PROVE  OwnInv'
<1> SUFFICES ASSUME Running' PROVE OwnInv'
  BY DEF OwnInv
<1>1. ~broken /\ RuleList /\ RulesOwn /\ OverrideOwn /\ FramesOwn /\ TimeOwn
  BY DEF OwnInv
<1>2. /\ pc' = "step" /\ File' = File
      /\ \A op : Done(op)' = Done(op) \cup (IF CurrentStep.op = op THEN {stepNo} ELSE {})
  BY StepDone
<1> DEFINE Added(op) == IF CurrentStep.op = op THEN {stepNo} ELSE {}
<1>3. /\ Done("set")' = Done("set") \cup Added("set")
      /\ Done("send")' = Done("send") \cup Added("send")
      /\ Done("wait")' = Done("wait") \cup Added("wait")
      /\ Done("expect")' = Done("expect") \cup Added("expect")
      /\ Done("fault")' = Done("fault") \cup Added("fault")
  BY <1>2
<1>4. OverrideOwn'
  BY <1>1, <1>3 DEF OverrideOwn
<1>5. FramesOwn'
  BY <1>1, <1>3 DEF FramesOwn, TestSent
<1>6. TimeOwn'
  <2>1. pc = "poll" => CurrentStep.op = "expect"
    BY DEF IInv, Placed
  <2>2. clock > 0 \/ VehicleSent => Done("wait") \cup Done("expect") # {} \/ pc = "poll"
    BY <1>1 DEF TimeOwn, VehicleSent
  <2>3. clock' > 0 \/ VehicleSent' => Done("wait")' \cup Done("expect")' # {}
    BY <1>3, <2>1, <2>2
  <2> QED BY <2>3 DEF TimeOwn, VehicleSent
<1>7. RulesOwn' /\ RuleList'
  <2>1. CASE CurrentStep.op = "fault"
    BY <1>1, <1>2, <1>3, <2>1, RuleAdded
  <2>2. CASE CurrentStep.op # "fault"
    BY <1>1, <1>2, <1>3, <2>2, RulesKept
  <2> QED BY <2>1, <2>2
<1> QED BY <1>1, <1>4, <1>5, <1>6, <1>7 DEF OwnInv

\* The vehicle sends nothing that would be taken for a frame of the test.
LEMMA VehicleSends ==
  ASSUME NEW until, VehicleRuns(until)
  PROVE  TestSent' <=> TestSent
<1>1. CASE arrivals' = arrivals
  BY <1>1 DEF TestSent
<1>2. ASSUME NEW n, arrivals' = arrivals \cup {[at |-> n, by |-> "vehicle"]}
      PROVE  TestSent' <=> TestSent
  BY <1>2 DEF TestSent
<1> QED BY <1>1, <1>2 DEF VehicleRuns

\* A step that fails, a test that is over, and run_suite between the tests leave
\* no test running.
LEMMA NotRunning ==
  ASSUME \/ LoadTest \/ SuiteDone \/ ResetFails \/ SendAborts \/ ForeignStepAborts
         \/ TestDone \/ ForeignStepFails \/ WaitPanics \/ PollPanics \/ SendPanics
  PROVE  OwnInv'
<1>1. ~Running'
  BY DEF LoadTest, SuiteDone, ResetFails, SendAborts, ForeignStepAborts, TestDone,
         ForeignStepFails, WaitPanics, PollPanics, SendPanics, PanicsWithin,
         StepFails, EndTest, Running
<1> QED BY <1>1 DEF OwnInv

\* The new simulation holds nothing, and no step has been done on it.
LEMMA ResetOwn ==
  ASSUME Reset
  PROVE  OwnInv'
<1>1. /\ stepNo' = 1 /\ clock' = 0 /\ faults' = <<>> /\ override' = FALSE
      /\ broken' = FALSE /\ arrivals' = {}
  BY DEF Reset, Rebuild, NewSimulation
<1>2. \A op : Done(op)' = {}
  BY <1>1 DEF Done
<1>3. Done("fault")' = {} /\ Done("set")' = {} /\ Done("send")' = {}
  BY <1>2
<1>4. RuleList'
  BY <1>1 DEF RuleList
<1>5. RulesOwn'
  BY <1>1, <1>3, FS_EmptySet DEF RulesOwn
<1>6. OverrideOwn' /\ FramesOwn' /\ TimeOwn'
  BY <1>1, <1>3 DEF OverrideOwn, FramesOwn, TimeOwn
<1> QED BY <1>1, <1>4, <1>5, <1>6 DEF OwnInv

LEMMA InstantOwn ==
  ASSUME IInv, OwnInv, SendStep \/ SetSignalStep \/ FaultStep
  PROVE  OwnInv'
<1>1. /\ Running /\ clock' = clock /\ clock \in Nat /\ suite' = suite /\ broken' = broken
  BY DEF SendStep, SetSignalStep, FaultStep, AtOwnStep, AtStep, Running, IInv, Placed
<1>2. CASE StepFails(clock) \/ pc' = "panicked"
  BY <1>2, FailsEnds DEF OwnInv, Running
<1>3. CASE SendStep
  <2>1. CurrentStep.op = "send" /\ StepPasses(clock) /\ faults' = faults /\ override' = override
    BY <1>3 DEF SendStep, AtOwnStep, AtStep
  <2>2. arrivals' = arrivals \cup {[at |-> clock, by |-> "test"]}
    BY <1>3 DEF SendStep
  <2> DEFINE frame == [at |-> clock, by |-> "test"]
  <2>3. frame.by = "test" /\ frame.by # "vehicle" /\ arrivals' = arrivals \cup {frame}
    BY <2>2
  <2> HIDE DEF frame
  <2>4. TestSent' /\ (VehicleSent' <=> VehicleSent)
    BY <2>3 DEF TestSent, VehicleSent
  <2> QED BY <1>1, <2>1, <2>4, StepOwn
<1>4. CASE SetSignalStep /\ ~StepFails(clock)
  <2>1. CurrentStep.op = "set" /\ StepPasses(clock) /\ faults' = faults /\ override' = TRUE
    BY <1>4 DEF SetSignalStep, AtOwnStep, AtStep
  <2>2. (TestSent' <=> TestSent) /\ (VehicleSent' <=> VehicleSent)
    BY <1>4 DEF SetSignalStep, TestSent, VehicleSent
  <2> QED BY <1>1, <2>1, <2>2, StepOwn
<1>5. CASE FaultStep /\ ~StepFails(clock) /\ pc' # "panicked"
  <2>1. CurrentStep.op = "fault" /\ StepPasses(clock) /\ override' = override
        /\ faults' = Append(faults, RuleOf(CurrentStep))
    BY <1>5 DEF FaultStep, AtStep
  <2>2. (TestSent' <=> TestSent) /\ (VehicleSent' <=> VehicleSent)
    BY <1>5 DEF FaultStep, TestSent, VehicleSent
  <2> QED BY <1>1, <2>1, <2>2, StepOwn
<1> QED BY <1>2, <1>3, <1>4, <1>5

LEMMA WaitOwn ==
  ASSUME IInv, OwnInv, WaitStep
  PROVE  OwnInv'
<1>1. /\ AtStep("wait") /\ clock' = RunFor(Us(CurrentStep.time)) /\ VehicleRuns(clock')
      /\ StepPasses(clock')
      /\ UNCHANGED <<suite, faults, override, broken>>
  BY DEF WaitStep
<1>2. Running /\ CurrentStep.op = "wait"
  BY <1>1 DEF AtStep, Running
<1>3. clock' \in Nat /\ clock <= clock'
  BY <1>1, WaitReach, RunForBounds DEF IInv, Placed
<1>4. TestSent' <=> TestSent
  BY <1>1, VehicleSends
<1> QED BY <1>1, <1>2, <1>3, <1>4, StepOwn

\* While an expectation is polled its step is not yet done.
LEMMA ExpectOwn ==
  ASSUME IInv, OwnInv, BeginExpect \/ Poll
  PROVE  OwnInv'
<1>1. /\ Running /\ CurrentStep.op = "expect"
      /\ UNCHANGED <<suite, faults, override, broken>>
  BY DEF BeginExpect, AtExpect, AtOwnStep, AtStep, Poll, Running, IInv, Placed, target
<1>2. clock' \in Nat /\ clock <= clock' /\ clock \in Nat
  <2>1. CASE BeginExpect
    BY <2>1 DEF BeginExpect, IInv, Placed, target
  <2>2. CASE Poll
    <3>1. clock' = RunFor(PollUs) /\ clock \in Nat /\ PollUs \in Nat
      BY <2>2, Constants DEF Poll, IInv, Placed
    <3> QED BY <3>1, RunForBounds
  <2> QED BY <2>1, <2>2
<1>3. TestSent' <=> TestSent
  <2>1. CASE BeginExpect
    BY <2>1 DEF BeginExpect, target, TestSent
  <2>2. CASE Poll
    BY <2>2, VehicleSends DEF Poll
  <2> QED BY <2>1, <2>2
<1>4. CASE StepFails(clock')
  BY <1>4, FailsEnds DEF OwnInv
<1>5. CASE StepPasses(clock')
  BY <1>1, <1>2, <1>3, <1>5, StepOwn
<1>6. CASE stepNo' = stepNo /\ test' = test /\ pc' = "poll"
  <2>1. File' = File
    BY <1>1, <1>6 DEF File
  <2>2. \A op : Done(op)' = Done(op)
    BY <1>6, <2>1 DEF Done
  <2>3. /\ Done("fault")' = Done("fault") /\ Done("set")' = Done("set")
        /\ Done("send")' = Done("send")
    BY <2>2
  <2>4. ~broken /\ RuleList /\ RulesOwn /\ OverrideOwn /\ FramesOwn
    BY <1>1 DEF OwnInv
  <2>5. RulesOwn' /\ RuleList'
    BY <1>1, <1>2, <2>1, <2>3, <2>4, RulesKept
  <2>6. OverrideOwn'
    BY <1>1, <2>3, <2>4 DEF OverrideOwn
  <2>7. FramesOwn'
    BY <1>3, <2>3, <2>4 DEF FramesOwn, TestSent
  <2>8. TimeOwn'
    BY <1>6 DEF TimeOwn
  <2> QED BY <1>1, <2>4, <2>5, <2>6, <2>7, <2>8 DEF OwnInv
<1>7. CASE BeginExpect
  BY <1>6, <1>7 DEF BeginExpect
<1>8. CASE Poll
  <2>1. StepFails(clock') \/ StepPasses(clock') \/ UNCHANGED <<pc, test, stepNo, results, claims>>
    BY <1>8 DEF Poll
  <2>2. pc = "poll"
    BY <1>8 DEF Poll
  <2> QED BY <1>4, <1>5, <1>6, <2>1, <2>2
<1> QED BY <1>7, <1>8

\* While a test runs, all that its target holds comes from the steps this test
\* has run (VirtualTarget::reset, target.rs:309): no rule, override, frame or
\* time of an earlier test, and nothing a panic has left behind, reaches it.
THEOREM TestsAreIsolated == Spec => []OnlyOwnSteps
<1>1. Init => OwnInv
  BY DEF Init, OwnInv, Running
<1>2. IInv /\ OwnInv /\ [Next]_vars => OwnInv'
  <2> SUFFICES ASSUME IInv, OwnInv, [Next]_vars PROVE OwnInv'
    OBVIOUS
  <2>1. CASE \/ LoadTest \/ SuiteDone \/ ResetFails \/ SendAborts \/ ForeignStepAborts
             \/ TestDone \/ ForeignStepFails \/ WaitPanics \/ PollPanics \/ SendPanics
    BY <2>1, NotRunning
  <2>2. CASE Reset
    BY <2>2, ResetOwn
  <2>3. CASE SendStep \/ SetSignalStep \/ FaultStep
    BY <2>3, InstantOwn
  <2>4. CASE WaitStep
    BY <2>4, WaitOwn
  <2>5. CASE BeginExpect \/ Poll
    BY <2>5, ExpectOwn
  <2>6. CASE Returned \/ UNCHANGED vars
    <3>1. UNCHANGED vars
      BY <2>6 DEF Returned
    <3> QED BY <3>1 DEF vars, OwnInv, Running, RuleList, RulesOwn, OverrideOwn, FramesOwn,
                       TimeOwn, Done, File, Imposes
  <2> QED BY <2>1, <2>2, <2>3, <2>4, <2>5, <2>6 DEF Next
<1>3. IInv /\ OwnInv => OnlyOwnSteps
  <2> SUFFICES ASSUME IInv, OwnInv, Running PROVE OnlyOwnSteps
    BY DEF OnlyOwnSteps, Running
  <2>1. ~broken /\ RulesOwn /\ OverrideOwn /\ FramesOwn /\ TimeOwn
    BY DEF OwnInv
  <2>2. seen # None => arrivals # {}
    BY DEF IInv, Recorded
  <2> QED BY <2>1, <2>2 DEF OnlyOwnSteps, RulesOwn, OverrideOwn, FramesOwn, TimeOwn
<1> QED BY <1>1, <1>2, <1>3, Inductive, PTL DEF Spec

-----------------------------------------------------------------------------
(* Drop faults.  A fault ends where its file says as long as no end leaves *)
(* the clock's width, which is what WindowsFit asks of a suite.            *)

WindowsFit ==
  \A i \in 1 .. Len(suite) : \A s \in 1 .. Len(suite[i].steps) :
    LET step == suite[i].steps[s]
    IN  step.op = "fault" /\ step.duration # None =>
          Meant(step.duration)
            + (IF step.start = None THEN Us(suite[i].timeout) ELSE Us(step.start)) < Top

\* A rule in force ends, if at all, where it is meant to.
SoundRule(f) ==
  /\ f.added \in Nat /\ f.from \in Nat
  /\ f.kind \in {"drop", "delay", "corrupt"}
  /\ \/ f.for = None /\ f.meant = None
     \/ f.meant \in Nat /\ f.for # None /\ Plus(f.from, f.for) = f.from + f.meant

RulesSound ==
  /\ faults \in Seq({faults[i] : i \in 1 .. Len(faults)})
  /\ \A i \in 1 .. Len(faults) : SoundRule(faults[i])

\* What the vehicle sent while the test ran was recorded before now.
HeardBefore ==
  Running => \A a \in arrivals : a.by = "vehicle" => a.at < clock

\* A rule that drops keeps off every frame of the vehicle in its window.
KeptOff(f, a) ==
  a.by = "vehicle" /\ f.added <= a.at /\ f.from <= a.at =>
    f.meant # None /\ f.from + f.meant <= a.at

AllDrop == \A i \in DOMAIN faults : faults[i].kind = "drop"
Dropped == AllDrop => \A i \in 1 .. Len(faults), a \in arrivals : KeptOff(faults[i], a)

Times == \A a \in arrivals : a.at \in Nat

DInv == WindowsFit /\ RulesSound /\ Times /\ HeardBefore /\ Dropped

LEMMA SmallSum ==
  ASSUME NEW a \in Nat, NEW b \in Nat, a + b < Top
  PROVE  b % Top = b /\ Plus(a, b) = a + b
<1>1. Top \in Nat \ {0} /\ a + b \in Nat /\ b < Top
  BY Constants
<1>2. \A n \in Nat : n < Top => n % Top = n
  BY <1>1
<1> QED BY <1>1, <1>2 DEF Plus

\* A written duration, the tenfold or more of its unit, is a number.
LEMMA MeantType ==
  ASSUME NEW d, IsDuration(d), Parses(d)
  PROVE  Meant(d) \in Nat
<1>1. d.num \in Nat
  BY Constants DEF IsDuration, Parses
<1>2. Factor(d.unit) \in Nat
  <2>1. d.unit = "us" \/ d.unit = "ms" \/ d.unit = "s"
    BY DEF Parses, Units
  <2>2. CASE d.unit = "us"
    BY <2>2 DEF Factor
  <2>3. CASE d.unit = "ms"
    BY <2>3, Constants DEF Factor
  <2>4. CASE d.unit = "s"
    BY <2>4, Constants DEF Factor
  <2> QED BY <2>1, <2>2, <2>3, <2>4
<1> QED BY <1>1, <1>2 DEF Meant

\* The rule that a fault step of a loaded file adds.
LEMMA RuleIsSound ==
  ASSUME IInv, WindowsFit, AtStep("fault")
  PROVE  SoundRule(RuleOf(CurrentStep)) /\ RuleOf(CurrentStep).added = clock
<1> DEFINE step == CurrentStep
           rule == RuleOf(step)
<1>1. /\ Running /\ stepNo <= Len(File.steps) /\ step.op = "fault"
  BY DEF AtStep, Running
<1>2. /\ stepNo \in 1 .. Len(File.steps) /\ test \in 1 .. Len(suite) /\ IsFile(File) /\ Loads(File)
      /\ DOMAIN File.steps = 1 .. Len(File.steps)
      /\ clock \in Nat /\ deadline = Us(File.timeout) /\ clock <= deadline /\ deadline \in Nat
  BY <1>1, RunningFacts
<1>3. IsStep(step) /\ ValidFault(step)
  BY <1>1, <1>2 DEF IsFile, Loads, CurrentStep
<1>4. /\ IsFault(step) /\ step.kind \in {"drop", "delay", "corrupt"}
      /\ step.start # None => IsDuration(step.start) /\ Parses(step.start)
      /\ step.duration # None => IsDuration(step.duration) /\ Parses(step.duration)
  BY <1>1, <1>3 DEF IsStep, IsFault, ValidFault, OptionParses
<1>5. step.duration # None =>
        Meant(step.duration) + (IF step.start = None THEN deadline ELSE Us(step.start)) < Top
  BY <1>1, <1>2 DEF WindowsFit, File, CurrentStep
<1> HIDE DEF step
<1>6. rule.from \in Nat /\ rule.from <= (IF step.start = None THEN deadline ELSE Us(step.start))
  <2>1. rule.from = IF step.start = None THEN clock ELSE Us(step.start)
    BY DEF RuleOf, FaultStart
  <2>2. step.start # None => Us(step.start) \in Nat
    BY <1>4, UsType
  <2> QED BY <1>2, <2>1, <2>2
<1>7. rule.added = clock /\ rule.kind = step.kind
  BY DEF RuleOf
<1>8. CASE step.duration = None
  <2>1. rule.for = None /\ rule.meant = None
    BY <1>8 DEF RuleOf, FaultFor
  <2> QED BY <1>2, <1>4, <1>6, <1>7, <2>1 DEF SoundRule, step
<1>9. CASE step.duration # None
  <2>1. rule.for = Us(step.duration) /\ rule.meant = Meant(step.duration)
    BY <1>9 DEF RuleOf, FaultFor
  <2>2. rule.meant \in Nat
    BY <1>4, <1>9, <2>1, MeantType
  <2> HIDE DEF rule
  <2>3. rule.from + rule.meant < Top
    <3>1. PICK bound \in Nat : rule.from <= bound /\ rule.meant + bound < Top
      <4>1. CASE step.start = None
        BY <1>2, <1>5, <1>6, <1>9, <2>1, <4>1
      <4>2. CASE step.start # None
        <5>1. Us(step.start) \in Nat
          BY <1>4, <4>2, UsType
        <5> QED BY <1>5, <1>6, <1>9, <2>1, <4>2, <5>1
      <4> QED BY <4>1, <4>2
    <3> QED BY <1>6, <2>2, <3>1, Constants
  <2>4. rule.for = rule.meant
    <3>1. rule.meant % Top = rule.meant
      BY <1>6, <2>2, <2>3, SmallSum
    <3> QED BY <2>1, <3>1 DEF Us
  <2>5. Plus(rule.from, rule.for) = rule.from + rule.meant /\ rule.for # None
    BY <1>6, <2>2, <2>3, <2>4, SmallSum, Constants
  <2> QED BY <1>2, <1>4, <1>6, <1>7, <2>2, <2>5 DEF SoundRule, rule, step
<1> QED BY <1>8, <1>9

\* Of some natural numbers one is the least.
LEMMA LeastOf ==
  ASSUME NEW on \in SUBSET Nat, on # {}
  PROVE  \E i \in on : \A j \in on : i <= j
<1>1. IsWellFoundedOn(OpToRel(<, Nat), Nat)
  BY NatLessThanWellFounded
<1>2. PICK i \in on : \A j \in on : ~(<<j, i>> \in OpToRel(<, Nat))
  BY <1>1, WFMin
<1>3. \A j \in on : ~(j < i)
  BY <1>2 DEF OpToRel
<1>4. \A j \in on : i <= j
  BY <1>3
<1> QED BY <1>4

\* When every rule drops, a frame of the vehicle arrives only while none holds.
LEMMA ArrivesBetweenDrops ==
  ASSUME RulesSound, AllDrop, NEW t \in Nat, MayArrive(t)
  PROVE  \A i \in 1 .. Len(faults) : ~ActiveAt(faults[i], t)
<1>1. DOMAIN faults = 1 .. Len(faults) /\ Len(faults) \in Nat
  BY LenProperties DEF RulesSound
<1>2. ASSUME NEW u PROVE Decides(u).kind \in {"none", "drop"}
                         /\ (Decides(u).kind = "none" => \A i \in 1 .. Len(faults) : ~ActiveAt(faults[i], u))
  <2> DEFINE active == {i \in DOMAIN faults : ActiveAt(faults[i], u)}
  <2>1. CASE active = {}
    <3>1. Decides(u) = [kind |-> "none", delay |-> 0]
      BY <2>1 DEF Decides
    <3> QED BY <1>1, <2>1, <3>1
  <2>2. CASE active # {}
    <3> DEFINE first == CHOOSE i \in active : \A j \in active : i <= j
    <3>1. \E i \in active : \A j \in active : i <= j
      <4>1. active \in SUBSET Nat
        BY <1>1
      <4> HIDE DEF active
      <4> QED BY <2>2, <4>1, LeastOf
    <3>2. first \in active
      <4> HIDE DEF active
      <4> QED BY <3>1
    <3>3. Decides(u) = [kind |-> faults[first].kind, delay |-> faults[first].delay]
      BY <2>2 DEF Decides
    <3>4. faults[first].kind = "drop"
      <4>1. first \in DOMAIN faults
        BY <3>2
      <4> HIDE DEF first
      <4> QED BY <4>1 DEF AllDrop
    <3> HIDE DEF first
    <3>5. Decides(u).kind = "drop"
      BY <3>3, <3>4
    <3> QED BY <3>5
  <2> QED BY <2>1, <2>2
<1>3. \A u : Decides(u).kind # "delay" /\ Decides(u).kind # "corrupt"
  BY <1>2
<1>4. Decides(t).kind = "none"
  BY <1>3 DEF MayArrive
<1> QED BY <1>2, <1>4

LEMMA TickFacts ==
  ASSUME clock \in Nat, NEW until \in Nat, clock <= until, NEW t \in Ticks(until)
  PROVE  t \in Nat /\ clock <= t /\ t < until
<1> DEFINE a == until - clock
           q == a \div StepUs
<1>1. a \in Nat /\ until = clock + a /\ StepUs \in Nat \ {0}
  BY Constants
<1> HIDE DEF a
<1>2. q \in Nat /\ StepUs * q <= a /\ StepUs * q \in Nat
  BY <1>1, Whole
<1>3. PICK n \in 0 .. q - 1 : t = clock + n * StepUs
  BY DEF Ticks, a
<1> HIDE DEF q
<1>4. n \in Nat /\ n + 1 <= q
  BY <1>2, <1>3
<1>5. StepUs * (n + 1) <= StepUs * q
  BY <1>2, <1>4, StepMonotonic
<1>6. StepUs * (n + 1) = n * StepUs + StepUs /\ n * StepUs \in Nat
  BY <1>1, <1>4
<1> QED BY <1>1, <1>2, <1>3, <1>5, <1>6

\* The firmware panics in a tick that is not past the end of the run.
LEMMA PanicTick ==
  ASSUME clock \in Nat, NEW d \in Nat, PanicsWithin(d)
  PROVE  /\ clock' + StepUs \in Nat /\ clock <= clock' + StepUs
         /\ VehicleRuns(clock' + StepUs)
<1>1. PICK n \in 0 .. (RunFor(d) - clock) \div StepUs - 1 :
        /\ clock' = clock + n * StepUs
        /\ VehicleRuns(clock' + StepUs)
  BY DEF PanicsWithin
<1>2. n \in Nat /\ StepUs \in Nat
  <2> DEFINE q == (RunFor(d) - clock) \div StepUs
  <2>1. RunFor(d) - clock \in Nat
    BY RunForBounds
  <2>2. q \in Nat
    BY <2>1, Whole
  <2> HIDE DEF q
  <2> QED BY <1>1, <2>2, Constants DEF q
<1>3. n * StepUs \in Nat
  BY <1>2
<1> QED BY <1>1, <1>2, <1>3

\* Whatever the vehicle sends while time passes keeps to the rules in force.
LEMMA VehicleHeeds ==
  ASSUME IInv, DInv, NEW until \in Nat, clock <= until, VehicleRuns(until), faults' = faults
  PROVE  /\ Dropped' /\ Times' /\ RulesSound'
         /\ Running => \A a \in arrivals' : a.by = "vehicle" => a.at < until
<1>1. clock \in Nat
  BY DEF IInv, Placed
<1>2. RulesSound' /\ (AllDrop' <=> AllDrop)
  BY DEF DInv, RulesSound, AllDrop
<1>3. CASE UNCHANGED <<seen, arrivals>>
  <2>1. Dropped' /\ Times'
    BY <1>3, <1>2 DEF DInv, Dropped, Times
  <2>2. ASSUME Running, NEW a \in arrivals', a.by = "vehicle" PROVE a.at < until
    <3>1. a.at < clock /\ a.at \in Nat
      BY <1>3, <2>2 DEF DInv, HeardBefore, Times
    <3> QED BY <1>1, <3>1
  <2> QED BY <1>2, <2>1, <2>2
<1>4. CASE ~UNCHANGED <<seen, arrivals>>
  <2>1. PICK t \in Ticks(until) : MayArrive(t)
                                  /\ arrivals' = arrivals \cup {[at |-> t, by |-> "vehicle"]}
    BY <1>4 DEF VehicleRuns
  <2> DEFINE new == [at |-> t, by |-> "vehicle"]
  <2>2. t \in Nat /\ clock <= t /\ t < until
    BY <1>1, TickFacts
  <2>3. new.at = t /\ \A a \in arrivals' : a \in arrivals \/ a = new
    BY <2>1
  <2> HIDE DEF new
  <2>4. Times'
    BY <2>2, <2>3 DEF DInv, Times
  <2>5. ASSUME Running, NEW a \in arrivals', a.by = "vehicle" PROVE a.at < until
    <3>1. CASE a \in arrivals
      <4>1. a.at < clock /\ a.at \in Nat
        BY <2>5, <3>1 DEF DInv, HeardBefore, Times
      <4> QED BY <1>1, <4>1
    <3>2. CASE a = new
      BY <2>2, <2>3, <3>2
    <3> QED BY <2>3, <3>1, <3>2
  <2>6. ASSUME AllDrop, NEW i \in 1 .. Len(faults), NEW a \in arrivals'
        PROVE  KeptOff(faults[i], a)
    <3>1. CASE a \in arrivals
      BY <2>6, <3>1 DEF DInv, Dropped
    <3>2. CASE a = new
      <4> DEFINE f == faults[i]
      <4>1. ~ActiveAt(f, t) /\ SoundRule(f)
        BY <2>1, <2>2, <2>6, ArrivesBetweenDrops DEF DInv, RulesSound
      <4> HIDE DEF f
      <4>2. ASSUME f.added <= t, f.from <= t
            PROVE  f.meant # None /\ f.from + f.meant <= t
        <5>1. f.for # None /\ ~(t < Plus(f.from, f.for))
          BY <4>1, <4>2 DEF ActiveAt
        <5>2. f.meant \in Nat /\ Plus(f.from, f.for) = f.from + f.meant /\ f.from \in Nat
          BY <4>1, <5>1 DEF SoundRule
        <5> QED BY <2>2, <5>1, <5>2, Constants
      <4> QED BY <2>3, <3>2, <4>2 DEF KeptOff, f
    <3> QED BY <2>3, <3>1, <3>2
  <2>7. Dropped'
    <3>1. AllDrop => \A i \in 1 .. Len(faults), a \in arrivals' : KeptOff(faults[i], a)
      BY <2>6
    <3> QED BY <1>2, <3>1 DEF Dropped
  <2> QED BY <1>2, <2>4, <2>5, <2>7
<1> QED BY <1>3, <1>4

LEMMA InitDrops == Init /\ WindowsFit => DInv
BY DEF Init, DInv, RulesSound, Times, HeardBefore, Dropped, Running

LEMMA FitKept ==
  ASSUME WindowsFit, suite' = suite
  PROVE  WindowsFit'
BY DEF WindowsFit

\* A new rule is no matter for what was recorded before: that came earlier.
LEMMA FaultHeeds ==
  ASSUME IInv, DInv, FaultStep
  PROVE  DInv'
<1>1. /\ AtStep("fault") /\ Running
      /\ UNCHANGED <<suite, clock, arrivals>>
      /\ faults' = faults \/ faults' = Append(faults, RuleOf(CurrentStep))
  BY DEF FaultStep, AtStep, Running
<1>2. WindowsFit' /\ Times' /\ (Running' => HeardBefore')
  BY <1>1, FitKept DEF DInv, Times, HeardBefore
<1>3. HeardBefore'
  BY <1>2 DEF HeardBefore
<1>4. CASE faults' = faults
  <2>1. RulesSound' /\ Dropped'
    BY <1>1, <1>4 DEF DInv, RulesSound, Dropped, AllDrop
  <2> QED BY <1>2, <1>3, <2>1 DEF DInv
<1>5. CASE faults' = Append(faults, RuleOf(CurrentStep))
  <2> DEFINE rule == RuleOf(CurrentStep)
             n == Len(faults)
             S == {faults[i] : i \in 1 .. n}
  <2>1. SoundRule(rule) /\ rule.added = clock
    BY <1>1, RuleIsSound DEF DInv
  <2>2. faults \in Seq(S) /\ n \in Nat /\ \A i \in 1 .. n : SoundRule(faults[i])
    BY LenProperties DEF DInv, RulesSound
  <2> HIDE DEF rule
  <2>3. /\ faults' \in Seq(S \cup {rule}) /\ Len(faults') = n + 1
        /\ \A i \in 1 .. n : faults'[i] = faults[i]
        /\ faults'[n + 1] = rule
    <3> HIDE DEF S
    <3>1. faults \in Seq(S \cup {rule}) /\ rule \in S \cup {rule}
      <4>1. \A T : S \subseteq T => faults \in Seq(T)
        BY <2>2
      <4> QED BY <4>1
    <3>2. faults' = Append(faults, rule)
      BY <1>5 DEF rule
    <3> QED BY <2>2, <3>1, <3>2, AppendProperties
  <2>4. \A i \in 1 .. Len(faults') : i \in 1 .. n \/ i = n + 1
    BY <2>2, <2>3
  <2>5. \A i \in 1 .. Len(faults') : SoundRule(faults'[i])
    BY <2>1, <2>2, <2>3, <2>4
  <2>6. RulesSound'
    <3>1. faults' \in Seq({faults'[i] : i \in 1 .. Len(faults')})
      <4>1. \A T : \A s \in Seq(T) : s \in Seq({s[i] : i \in 1 .. Len(s)})
        OBVIOUS
      <4> QED BY <2>3, <4>1
    <3> QED BY <2>5, <3>1 DEF RulesSound
  <2>7. ASSUME AllDrop', NEW i \in 1 .. Len(faults'), NEW a \in arrivals
        PROVE  KeptOff(faults'[i], a)
    <3>1. CASE i = n + 1
      <4>1. a.at \in Nat /\ (a.by = "vehicle" => a.at < clock) /\ clock \in Nat
        BY <1>1 DEF DInv, HeardBefore, Times, IInv, Placed
      <4> QED BY <2>1, <2>3, <3>1, <4>1 DEF KeptOff
    <3>2. CASE i \in 1 .. n
      <4>1. AllDrop
        <5>1. DOMAIN faults = 1 .. n /\ DOMAIN faults' = 1 .. n + 1
          BY <2>2, <2>3, LenProperties
        <5>2. \A j \in 1 .. n : faults'[j].kind = "drop"
          BY <2>7, <5>1, <2>2 DEF AllDrop
        <5> QED BY <2>3, <5>1, <5>2 DEF AllDrop
      <4> QED BY <2>3, <3>2, <4>1 DEF DInv, Dropped
    <3> QED BY <2>4, <3>1, <3>2
  <2>8. Dropped'
    BY <1>1, <2>7 DEF Dropped
  <2> QED BY <1>2, <1>3, <2>6, <2>8 DEF DInv
<1> QED BY <1>1, <1>4, <1>5

\* While a step waits or polls, the vehicle heeds the rules; when the step ends
\* the test, or its firmware panics, nothing is asked of the moment any more.
LEMMA TimeHeeds ==
  ASSUME IInv, IInv', DInv, WaitStep \/ Poll \/ WaitPanics \/ PollPanics
  PROVE  DInv'
<1>1. clock \in Nat /\ clock' \in Nat /\ suite' = suite /\ faults' = faults /\ Running
  BY DEF IInv, Placed, WaitStep, Poll, WaitPanics, PollPanics, AtStep, Running
<1>2. WindowsFit'
  BY <1>1, FitKept DEF DInv
<1>3. CASE WaitStep \/ Poll
  <2>1. VehicleRuns(clock') /\ clock <= clock'
    <3>1. CASE WaitStep
      <4>1. Us(CurrentStep.time) \in Nat
        BY <3>1, WaitReach DEF WaitStep
      <4> QED BY <1>1, <3>1, <4>1, RunForBounds DEF WaitStep
    <3>2. CASE Poll
      BY <1>1, <3>2, RunForBounds, Constants DEF Poll
    <3> QED BY <1>3, <3>1, <3>2
  <2>2. /\ Dropped' /\ Times' /\ RulesSound'
        /\ \A a \in arrivals' : a.by = "vehicle" => a.at < clock'
    BY <1>1, <2>1, VehicleHeeds
  <2> QED BY <1>2, <2>2 DEF DInv, HeardBefore
<1>4. CASE WaitPanics \/ PollPanics
  <2>1. PICK d \in Nat : PanicsWithin(d)
    <3>1. CASE WaitPanics
      BY <3>1, WaitReach DEF WaitPanics
    <3>2. CASE PollPanics
      BY <3>2, Constants DEF PollPanics
    <3> QED BY <1>4, <3>1, <3>2
  <2>2. /\ clock' + StepUs \in Nat /\ clock <= clock' + StepUs
        /\ VehicleRuns(clock' + StepUs)
    BY <1>1, <2>1, PanicTick
  <2>3. Dropped' /\ Times' /\ RulesSound'
    BY <1>1, <2>2, VehicleHeeds
  <2>4. ~Running'
    <3>1. StepFails(clock')
      BY <1>1, <2>1, PanicBounds
    <3> QED BY <3>1 DEF StepFails, EndTest, Running
  <2> QED BY <1>2, <2>3, <2>4 DEF DInv, HeardBefore
<1> QED BY <1>3, <1>4

\* Frames the test sends itself are no fault's business.
LEMMA SendHeeds ==
  ASSUME IInv, DInv, SendStep \/ SendPanics
  PROVE  DInv'
<1> DEFINE new == [at |-> clock, by |-> "test"]
<1>1. /\ Running /\ clock' = clock /\ suite' = suite /\ faults' = faults
      /\ arrivals' = arrivals \cup {new} /\ clock \in Nat
  BY DEF SendStep, SendPanics, AtOwnStep, AtStep, Running, IInv, Placed
<1>2. new.at = clock /\ new.by = "test"
  OBVIOUS
<1> HIDE DEF new
<1>3. new.by # "vehicle"
  BY <1>2
<1>4. WindowsFit' /\ RulesSound'
  BY <1>1, FitKept DEF DInv, RulesSound
<1>5. Times' /\ HeardBefore'
  BY <1>1, <1>2, <1>3 DEF DInv, Times, HeardBefore
<1>6. Dropped'
  BY <1>1, <1>3 DEF DInv, Dropped, AllDrop, KeptOff
<1> QED BY <1>4, <1>5, <1>6 DEF DInv

\* A test begins without rules, and without anything recorded.
LEMMA ResetHeeds ==
  ASSUME IInv, DInv, Reset
  PROVE  DInv'
<1>1. suite' = suite /\ faults' = <<>> /\ arrivals' = {}
  BY DEF Reset, Rebuild, NewSimulation
<1>2. WindowsFit'
  BY <1>1, FitKept DEF DInv
<1>3. Len(faults') = 0 /\ faults' \in Seq({faults'[i] : i \in 1 .. Len(faults')})
  BY <1>1
<1>4. RulesSound' /\ Times' /\ HeardBefore' /\ Dropped'
  BY <1>1, <1>3 DEF RulesSound, Times, HeardBefore, Dropped
<1> QED BY <1>2, <1>4 DEF DInv

\* What neither lets time pass nor touches the rules or the recorder.
LEMMA QuietHeeds ==
  ASSUME DInv, UNCHANGED <<suite, clock, faults, arrivals>>, Running' => Running
  PROVE  DInv'
<1>1. WindowsFit' /\ RulesSound' /\ Times' /\ HeardBefore'
  BY FitKept DEF DInv, RulesSound, Times, HeardBefore
<1>2. Dropped'
  BY DEF DInv, Dropped, AllDrop
<1> QED BY <1>1, <1>2 DEF DInv

\* Of a suite whose windows fit the clock: as long as every rule in force drops,
\* no frame of the vehicle is recorded within the window that a file states for
\* one, from the moment the rule is added (dsl.rs:122, target.rs).  Without
\* WindowsFit this is false: the run TestRunnerWraps shows it.
THEOREM DropsHold == Spec /\ WindowsFit => []DropHolds
<1>1. IInv /\ IInv' /\ DInv /\ [Next]_vars => DInv'
  <2> SUFFICES ASSUME IInv, IInv', DInv, [Next]_vars PROVE DInv'
    OBVIOUS
  <2>1. CASE LoadTest \/ SuiteDone \/ ResetFails \/ SendAborts \/ ForeignStepAborts
    <3>1. UNCHANGED <<suite, clock, faults, arrivals>> /\ ~Running'
      BY <2>1 DEF LoadTest, SuiteDone, ResetFails, SendAborts, ForeignStepAborts,
                  runner, target, Running
    <3> QED BY <3>1, QuietHeeds
  <2>2. CASE Reset
    BY <2>2, ResetHeeds
  <2>3. CASE TestDone \/ SetSignalStep \/ ForeignStepFails \/ BeginExpect
    <3>1. UNCHANGED <<suite, clock, faults, arrivals>> /\ Running
      BY <2>3 DEF TestDone, SetSignalStep, ForeignStepFails, BeginExpect, AtForeignStep,
                  AtExpect, AtOwnStep, AtStep, target, Running
    <3> QED BY <3>1, QuietHeeds
  <2>4. CASE SendStep \/ SendPanics
    BY <2>4, SendHeeds
  <2>5. CASE FaultStep
    BY <2>5, FaultHeeds
  <2>6. CASE WaitStep \/ Poll \/ WaitPanics \/ PollPanics
    BY <2>6, TimeHeeds
  <2>7. CASE Returned \/ UNCHANGED vars
    <3>1. UNCHANGED <<suite, clock, faults, arrivals>> /\ (Running' => Running)
      BY <2>7 DEF Returned, vars, Running
    <3> QED BY <3>1, QuietHeeds
  <2> QED BY <2>1, <2>2, <2>3, <2>4, <2>5, <2>6, <2>7 DEF Next
<1>2. DInv => DropHolds
  <2> SUFFICES ASSUME DInv, \A i \in DOMAIN faults : faults[i].kind = "drop",
                      NEW i \in DOMAIN faults, NEW a \in arrivals
               PROVE  KeptOff(faults[i], a)
    BY DEF DropHolds, KeptOff
  <2>1. DOMAIN faults = 1 .. Len(faults)
    BY LenProperties DEF DInv, RulesSound
  <2> QED BY <2>1 DEF DInv, Dropped, AllDrop
<1> QED BY <1>1, <1>2, InitDrops, Inductive, PTL DEF Spec

=============================================================================
