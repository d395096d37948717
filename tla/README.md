# Embrig in TLA+

A verification project for [Embrig](../src/README.md), a virtual integration rig
for embedded networks: ECU models and firmware run on a deterministic simulated
bus, and YAML tests drive them on that bus, on a rest-bus or on real hardware.
The modules here are translated from the Rust sources. TLC checks them on small
instances; TLAPS proves the most important results for all values of the
constants.

Contents: [inventory](#1-inventory) · [modules](#2-modules-and-the-code) ·
[runs](#3-runs) · [disagreements](#4-where-code-and-documents-disagree) ·
[proofs](#5-proofs) · [limits](#6-what-is-not-modelled)

## 1. Inventory

| Component | Code | State it keeps | Operations | Modules |
|---|---|---|---|---|
| Network engine | `embrig-core/src/network.rs`, `fault.rs` | clock, ECU vector, key → ECU indices, fault rules, delay list, recorder | `attach`, `subscribe`, `add_fault`, `inject`, `run_until`, `step`, `route`, `deliver` | `NetworkSim` |
| Powertrain ECUs | `embrig-models/src/ecus.rs` | latched inputs, time of the last battery frame, next transmission | `update`, `on_message` of `Charger`, `VehicleController`, `Motor` | `Powertrain` |
| CANopen firmware | `firmware/canopen-controller/src/lib.rs` | NMT state, temperature, valve, two timers | `update`, `on_message` | `CanOpenNode`, `CanOpenBus` |
| Robot and pump firmware | `firmware/robot`, `firmware/controller` | controller state, timers | `update`, `on_message` | `RobotNode`, `PumpNode` |
| Config nodes, vehicle building | `embrig-models/src/config.rs`, `embrig-net/src/ecu.rs`, `tcp.rs` | base values, overrides, next transmission | build, `update`, `set_signal`, `set_field` | `ConfigVehicle`, `EthVehicle`, `CanOpenBus` |
| DBC, netmap, CANopen codecs | `embrig-dbc`, `embrig-net/src/netmap.rs`, `embrig-canopen` | none | parse, encode, decode | `DbcParser`, `DbcCodec`, `NetmapCodec`, `CanOpenCodec` |
| UDP and TCP simulation | `embrig-net/src/sim.rs`, `tcp.rs` | an engine | wrappers around it | `EthVehicle`, `NetworkSim` |
| Test files | `embrig-test/src/dsl.rs` | none | `load_spec`, `parse_duration` | `TestFile` |
| Test runner | `embrig-test/src/runner.rs` | current file and step, budget, results | `run_suite`, `run_spec`, `poll_until`, `check_assertion` | `TestRunner` |
| Virtual target | `embrig-test/src/target.rs` | a simulation | `send`, `poll`, `wait`, `add_fault`, `set_signal`, `reset` | `TestRunner`, `ConfigVehicle` |
| SIL target | `embrig-sil/src/lib.rs` | the engine with compiled firmware in it | the same, with `catch_unwind` around every call | `TestRunner` |
| UDP targets | `embrig-test/src/udp.rs` | a simulation, or a socket and a queue | the same | `EthVehicle`, `HardwareTargets` |
| Rest-bus target | `embrig-test/src/target.rs` | a simulation and a CAN socket, two clocks | `drive`, `poll`, `wait`, `send`, `reset` | `RestBus` |
| Hardware target, SocketCAN | `embrig-test/src/target.rs`, `embrig-can/src/socketcan.rs` | a CAN socket, start time | `poll`, `wait`, `send`, `reset` | `HardwareTargets` |
| Protocol registry | `embrig-test/src/protocol.rs` | kind → protocol | `register`, `build` | `CommandLine` |
| Reports | `embrig-test/src/report.rs` | none | JSON and HTML, reading JSON back | `CommandLine` |
| Command line | `embrig-cli` | the project's files | `init`, `simulate`, `test`, `report` | `CommandLine` |

**How they interact.** A command resolves test files and an interface, has the
registry build a target, and hands both to the runner. The runner calls the
target: it injects frames, adds faults and lets time run. A target owns an
engine (or a socket, or both). The engine calls every ECU's `update` once a
tick, in attach order; what they push is routed through the fault rules and
handed to the subscribers' `on_message`. Config nodes turn values into bytes
through a codec, firmware and expectations turn bytes back. Everything inside an
engine is one thread. The recorder is what `poll` reads and, in the rest-bus
target, what tells the frames to transmit from the frames that came in. Only the
rest-bus and hardware targets meet a second actor: the device under test on the
other end, and the clock. Only the command line leaves something behind when it
is killed: the files.

**What is hard here, and what is correct.**

* *Engine.* Messages move through four lists (pushed, delayed, due, recorded)
  under rules that overlap, expire and appear between runs. Correct: every
  message has exactly one fate; it is delivered in the first tick at or after
  its time stamp; the first active rule decides; nothing but a delay reorders;
  every ECU is handed exactly what was recorded, in the recorder's order; runs
  end.
* *Powertrain.* Three ECUs sample each other's latched values at their own
  periods. Correct: the motor stops, and resumes, within a bounded time of the
  decision; the two battery timeouts (300 ms, 500 ms) fit together when frames
  are lost.
* *Example firmware.* Commands and sensor frames in any order, some too short
  for all their signals; two timers in one handler. Correct: the valve law in
  OPERATIONAL, a bounded time from a decision to the bus, a rover that obeys its
  newest commands and limits its wheels; and what a test sets arrives in the
  firmware as it was written, through the encoder, the bytes and the decoder.
* *Runner.* Three clocks compete: the window of an expectation, the budget of
  the test, and the granularity of the simulation; durations are 64 bits wide
  and unchecked. One test's failure, faults and overrides, and a simulation
  broken by a firmware panic, must not reach the next. Correct: no test passes
  out of budget, a test overruns by one step at most, the results are complete,
  what a test meets comes from its own steps, a drop fault holds for its window, what the loader
  accepts never panics, the suite ends.
* *Config nodes and codecs.* A test overrides signals at any time; values are
  checked at one moment and packed with others at a later one, in two byte
  orders, with sign, scaling and rounding; a value that cannot be sent silences
  a node until it is replaced, and faults, injected messages and late delayed
  ones replace what a poll sees. Correct: the network is what the file says, a
  frame decodes to the values in force, an override that can be sent takes
  effect within a period and a step, a CAN node keeps its schedule whatever it
  is told.
* *Rest-bus.* The simulation's clock chases the bus's; the socket echoes what
  the target sends. Correct: every frame crosses once in each direction, the
  simulation is never ahead and omits nothing, the newest frame is what a poll
  gets once the echoes are read, `drive` returns.
* *Hardware targets.* Messages wait in the kernel and in the target while polls
  for different keys take them. Correct: none is lost or doubled, each is
  reached within a bounded number of polls, every call ends.
* *Command line.* Commands fail, or are killed, between any two writes; inputs
  overlap; names of interfaces are guessed. Correct: the exit code and the
  report tell what ran, `init` spares the user's files, no path that was asked
  for runs twice or is left out, a suite runs on the target that was named.

`PROJECT.json` lists each hazard at its line, with the properties that cover it
or the reason why none does.

## 2. Modules and the code

### NetworkSim

`network.rs`. Variables have the names of the struct's fields where there is
one: `time`, `delayed`, `faults`, `subs` (the map from key to ECU indices). The
ECU vector is `inbox`: an ECU is a `dyn NetEcu` that may do anything, so all
the model keeps of one is the list of messages it was handed. `outbound` and
`due` are local variables of `step`, `until` is the argument of `run_until`,
and `pc`/`turn` say where in `step` the thread is.

| Action | Code |
|---|---|
| `Attach`, `Subscribe`, `AddFault`, `Inject`, `RunUntil` | the calls between runs |
| `UpdateEcu`, `UpdatesDone` | `ecu.update(time, &mut outbound)`, one ECU per step of the model |
| `Route` = `RouteClean`/`RouteDrop`/`RouteDelay`/`RouteCorrupt` | `route`, one message, with `apply_faults` as `FirstMatch` |
| `TakeDue`, `DeliverDue` | the `retain` over the delay list and the delivery of what it released |
| `EndTick` | `time += step_us` and the loop test of `run_until` |

Payload is abstracted to whether a corrupt rule flipped it. A message carries an
`id`, the tick it was `born` in and who pushed it, for the properties only. The
delay list is a set: it is filled in the order of the ids and `retain` keeps
order, so the front of what is released is the least id (`FrontDue`).

### TestFile, TestRunner

`TestFile` is `dsl.rs`: a file is a record of what is written in it, `Loads` the
checks of `load_spec_str`, `Us` what `parse_duration` makes of a duration, with
a clock of `Top` values and the multiplication that wraps in a release build.
`TestRunner` is `runner.rs` over the virtual targets, of CAN or of UDP
(`network`), and over the software-in-the-loop targets. A CAN step and the
netmap step of the same shape share an action, and differ where the target
refuses them: `send_udp` and `fault_udp` leave `run_spec` by `?` and end the
suite (`ForeignStepAborts`), all others fail the test (`ForeignStepFails`). A
firmware that overruns its step budget panics in the middle of a tick; `run_sim`
turns that into the step's failure (`WaitPanics`, `PollPanics`, `SendPanics`),
and the clock stays where the last whole tick left it; `broken` says that the
simulation is one of those. `Rebuild` is the `reset` of either target, which
builds a new simulation (`NewSimulation`) whatever the old one is like: also one
that a panic has left half-way, or whose clock has not moved. `LoadTest` reads a file
and ends the suite at one that does not load. `Poll` is one turn of the loop of
`poll_until`, `BeginExpect` its head, `StepPasses`/`StepFails` the match on the
step's outcome with the budget check. The vehicle is one watched message id:
while virtual time runs it may put a frame with any value on the bus
(`VehicleRuns`), unless the fault rule that decides drops it, or a delay rule
holds it. `FaultStep` adds the rule that `fault_from_kind` builds, which panics
on a rule that is not complete. `arrivals` and `claims` serve the properties
only.

### Powertrain

`ecus.rs`, in one module because the properties are about the three ECUs
together. `charger`, `vcu` and `motor` are records with the structs' fields;
`ChargerHears`, `VcuHears`, `MotorHears` are the `on_message` handlers,
`ChargerUpdate`, `VcuUpdate`, `MotorUpdate` the `update`s in attach order,
`Route` and `EndTick` the engine. Battery voltage is abstracted to "above
450 V", the state of charge to "full"; a frame that is too short for a signal
leaves the latched value (`Unread`), as the `if let Some` of the handlers does.

### CanOpenNode, CanOpenCodec, CanOpenBus

`firmware/canopen-controller/src/lib.rs` twice. `CanOpenNode` is what the
firmware promises on a bus where any command and temperature may arrive at any
time: `Nmt` and `Rpdo` are the two branches of `on_message`, `Update` has both
timers, `EndTick` puts the frames on the bus. `CanOpenBus` is the example as it
runs: two config nodes (`MasterFrames`) that a test steers (`SetSignal`), frames
of bytes that are routed in order, and the firmware that decodes them (`OnNmt`,
`OnRpdo`) and answers (`FirmwareFrames`). `CanOpenCodec` is `embrig-canopen`:
the layouts, identifiers, checks and rounding between the two; a byte is the set
of its bits and a physical value a whole number of hundredths. At its end
`CanOpenBus` maps itself to `CanOpenNode` (`Abstract`), and `ImplementsNode`
says that it takes only that module's steps: bytes, masters, other nodes'
commands and unknown commands add nothing to what the abstract node does. The
codec below is `DbcCodec`, whose `RawFor` is the raw value of a physical one in a
message's signal of a name (`resolve_all`).

### RobotNode, PumpNode

The rover's and the pump's firmware, in the form of `CanOpenNode`. `Behaviour`
is the priority list of `behaviour()`; `DriveCommand` decodes each signal on its
own, as the two `if let Ok` of `on_message` do, so a frame of two bytes changes
the speed and keeps the steering.

### DbcParser, DbcCodec, ConfigVehicle

From a DBC file to frames. `DbcParser` is `parse`: one action per kind of line,
each with the whole handler behind it (`ParseBo`, `ParseSg`, `ParseVal`), over
lines whose text is already taken apart. `DbcCodec` holds the functions of
`codec.rs` under their names in capitals (`Positions`, `FitsBits`,
`PhysicalToRaw`, `WriteSignal`, `ReadSignal`, `EncodeSignals`, ...); a call
yields a value, an error or a panic. `ConfigVehicle` extends both: `BuildEcu` is
one turn of the loop of `build_simulation_indexed_with_codec` with every check
that ends it (`Buildable`), `Tick` is the `update` of all config nodes in their
order, `SetSignal` the target's and the node's `set_signal`, `TickPanics` an
index behind the data in `write_signal`. The reference ECUs are built and
subscribed here; what they do is in `Powertrain`.

### NetmapCodec, EthVehicle

The same for Ethernet. `NetmapCodec` holds the functions of `netmap.rs`, with
`Byte` values to a byte (256 in the code). `EthVehicle` has the three ways to an
Ethernet network, chosen by `stack`: the virtual and the firmware target of
`udp.rs`, which build the nodes and check what a test sets (`BuildEcu`,
`SetField`), and a program that connects config nodes to a `TcpSim`. `Current`
is the merge of overrides and base in `encode`; `Tick` is one step of the
engine with the nodes in it, its fault rules (`Decides`, `Acts`) and its delay
list `held`, a set ordered by `Before`: by the step a message was held back in
and, within a step, by its ECU, which is the order of the code's list. `latest`
is what `last_datagram` and `last_segment` return (`Newest` says which message
of a step that is); `Reset` builds everything again.

`Vehicles` puts the two kinds of vehicle side by side, one chosen at the start
(`bus`), and states what the theorems about them assume of files, netmaps and
vehicles (`CanAssumption`, `EthernetAssumption`): that fields have names of their
own in a message, as the keys of a map do, that numbers are whole, and that a
signal has 1 to 63 bits. A signal of 64 bits is a special case of `fits_bits` and
`sign_extend` that is not modelled, and one of none has no highest bit.

### RestBus, HardwareTargets

`RestBus`: `Loop`, `Recv`/`RecvTimesOut`, `Sync`, `SimTick`/`RunDone`,
`Send`/`SendDone` are the statements of `drive`; `Elapse` is the host's clock
and may run between any two of them, which is how a stalled host is modelled;
`DeviceSends` is the device under test, and also the test's own `send`, which
goes to the bus. `socket` is the kernel's queue: it receives everything on the
bus, the target's own frames included (`recv_own_msgs`). The simulation is one
node with a periodic frame. `HardwareTargets`: `HardwareTarget` on CAN and
`UdpHardwareTarget`, chosen by `link`; `queue` is the UDP target's own. `Poll`,
then `TakeQueued`, `LookTooLate`, `LookFurther`, `RecvDatagram`, `RecvTimesOut`
are the statements of `poll_msg`; `RecvFrame` is the whole of the CAN target's
`poll`.

### CommandLine

`embrig-cli` with the registry and the reports. `files` is the disk, of which a
user may change any file between commands (`UserEdits`); `Killed` ends a command
at any point, and every write may fail and leave a torn file (`WriteFails`).
`InitChecks`, `InitWrites` are the two loops of `cmd_init`; `TestReady` is
everything `cmd_test` does before the target exists (`Resolve` and `Selected`
are the resolution of inputs and of the interface), `TestBegins` the building by
the registry, `Loopback` the `--check`, `RunTest` one file of the suite, whose
outcome is chosen freely, `SuiteEnds`, `WriteReport` and `LoadReport` the rest.

### Modules for TLC, and proofs

`MCNetworkSim`, `MCTestRunner`, `MCConfigVehicle`, `MCCommandLine` give the
constants values, and `MCVehicles` those of `Vehicles`. `MCSilFirmware` and
`MCLiveLink` put several components of a kind side by side, one chosen by `Init`:
the three firmwares, the three targets on a live link. The modules called
`...Proofs` are the subject of section 5.

## 3. Runs

| Run | What it checks |
|---|---|
| `network_faults` | `ExactlyOneFate`, `OnTime`, `FirstActiveRuleDecides`, `OvertakenOnlyWhenDelayed` under rules of all kinds |
| `network_fanout` | `TypeOK`, `FanOut`, `BroadcastOrder` with two ECUs and repeated subscriptions; `RunStopsAtTarget`, `RunReturns` |
| `test_runner` | `PassedInBudget`, `OverrunBounded`, `EveryTestReported`, `OnlyOwnSteps`, `PresenceKnown`, `DropHolds`, `StepsNeverPanic`, `SuiteReturns` |
| `powertrain` | `MotorStopsInTime`, `MotorResumesInTime`, `ChargerFaultNeverAlone` |
| `sil_firmware` | `OperationalLaw`, `Reported`, `CommandsArrive`, `ImplementsNode` of the CANopen example on its bus (`Reported` of the pump too), `RobotObeys` |
| `live_link` | `EveryMessageInOnePlace`, `ReachedInTurn` of the hardware targets; `EveryFrameOnce`, `Paced`, `NewestOnceDrained` of the rest-bus target; `CallReturns` of all |
| `vehicles` | `NetworkIsFile`, `FramesShowValues`, `SendsWhenDue` on CAN; `PollShowsFields`, `OverridesTakeEffect` on Ethernet |
| `command_line` | `ExitTells`, `InitKeepsFiles`, `RunsAsNamed`, `RunsWhereNamed` |
| `absent_window`, `fault_duration_wraps`, `valve_after_stop`, `signal_out_of_bounds` | a documented property that the code does not have, see section 4 |

**Bounds.**

* `network_faults`: three messages on two keys, one ECU, two rules out of five
  (a delay that is no multiple of the step and has a window, a delay of 0, a
  drop with a window, a corruption for ever, a corruption that hits no byte),
  runs to 3 and to 6 with a step of 2. Two rules suffice for each precedence
  between them; three messages are one released late, one overtaking it and one
  in the next tick. One ECU suffices because fan-out has a run of its own.
* `network_fanout`: two ECUs, two keys, two subscriptions per key, two messages:
  the least with which two ECUs can disagree about an order or a count. Targets
  1 and 4 lie between ticks, on a tick and, once the clock has moved, in the
  past.
* `test_runner`: two files, the first of a step out of eleven followed by one or
  two steps out of ten variants, the second out of four, or one that the loader
  refuses, for CAN and for UDP, each on targets of both; a panic in any tick; a
  step of 2 and a poll of 3, so that polls do not fall on ticks; budgets of 6,
  windows of nothing, less than a poll, two polls, and 100, beyond every budget;
  ten microseconds to the millisecond and a hundred to the second, and a clock
  of `Top` = 1000 values, so that ten seconds are exactly one turn of the clock.
  The durations of this run stay below the wrap-around, or do not parse at all
  (`Top` itself); `fault_duration_wraps` goes there.
* `powertrain`: step 2, periods 3, 2, 2, timeouts 3 and 2 in the proportion of
  the code's (the charger's timeout is the longer one), a clock up to 14: every
  period elapses at least four times. The time bounds of the two motor
  properties are tight: one unit less and TLC finds a violation.
* `sil_firmware`: periods 3 and 6 in the code's proportion of 50 to 100 ms, no
  multiple and a multiple of the step, masters of period 4, a clock up to 12, in
  which each timer elapses at least twice behind a change; speeds at the limit
  and one beyond it, none, steering within the limits of the wheels, and far enough to reach the
  clamp of either wheel on either side; temperatures at the upper edge of the band, one and the other
  side of where rounding decides, and one that no frame can hold; commands by
  name, by number and by an unknown number, and for another node.
* `live_link`: two keys, three messages, one reset, a poll of 2 and a clock up
  to 5: two polls in a row can both be held up, and a message can stand behind
  one of each key. On the rest-bus, drives of 0 and of 7 with a poll of 3, so
  that a drive takes two full waits and a shorter one; a bus clock up to 8, two
  frames of the device; a period of 4 against a host that may be held up all the
  time.
* `vehicles`: on CAN every file of up to three lines out of seven (two messages,
  an Intel signal inside a byte, a Motorola signal across two bytes, a value
  table that names one raw value twice, a line that is skipped, a malformed
  one), which has every order and repetition of two lines and their message; one
  signal at every start bit of two bytes, of 1, 4 or 9 bits, in both byte
  orders; and eleven longer files with what the short ones have no room for.
  Requests lie just inside and just outside of a signal's range; a step of 2
  against periods of 1, 2 and 3, a clock up to 8. On Ethernet `Byte = 4`, so
  that every type's range is within reach of the values; five messages, among
  them one whose zero does not fit, one with a field behind its payload and one
  with overlapping fields; three calls (overrides, fault rules, injected
  datagrams, resets) in any order, through all three stacks, which is one rule
  that disturbs, a second that overlaps it, and an override under both.
* `command_line`: a project with two tests and a note, a test next to it, a second
  spelling of the path to one of them, five
  declared interfaces (of three kinds the registry knows and of two it does not),
  six vehicles from sound to unloadable, and twenty commands, run one after the
  other for as long as a user likes: the state is the disk and one command, so
  there is no bound on their number.

**Fairness.** `NetworkSim!FairSpec` asks for weak fairness of `Tick`: inside
`run_until` one thread executes a loop without any wait, lock or await.
`TestRunner!FairSpec` asks for weak fairness of `Next`: the runner is one task,
and each await of the virtual target is ready at once. `MCLiveLink!FairSpec` asks
that time passes (`WF_vars(Elapse)`) and that the task inside a call gets to run
when it can (`WF_vars(Step)`); `recv` has a timeout, so it can once time has
passed. No fairness is asked of callers, of the device or of stimuli.

**Deadlock.** It is checked where the system goes on for ever: a suite that has
returned stutters (`Returned`); the powertrain and the firmwares can always
hear one more stimulus; a shell always takes another command. It is not checked
in `vehicles`, where a file or a vehicle that is refused and a panic really are
the end, and where the clock ends at `MaxTime`, nor in `live_link`, where nothing
is left to do when the host's clock is at its bound; there `CallReturns` shows
that no call is left hanging.

**Mutants.** For each property of a passing run a definition in the modules,
marked `Mutant:`, is the code with a plausible bug in it (a dropped guard, a
wrong order, a missing reset), and TLC finds the property violated with it.

## 4. Where code and documents disagree

With a run that shows it:

* `absent_window`: `present: false` with `within` is documented as "must not
  appear" within the window (`embrig-test/src/dsl.rs:163-164`); `poll_until`
  passes at the first poll that sees nothing.
* `fault_duration_wraps`: a drop fault is documented to "Suppress every frame
  with the id." (`embrig-test/src/dsl.rs:122`). `parse_duration` multiplies
  (`dsl.rs:290-293`) and `active_at` adds (`embrig-core/src/network.rs:79`) in 64
  bits without a check; in a release build a duration near the width of the
  clock wraps around to a window that has passed. A debug build panics at the
  same places; the modules are the release build.
* `valve_after_stop`: the CANopen valve is documented to be open "only while it
  is OPERATIONAL" (`firmware/canopen-controller/src/lib.rs:40-41`); an NMT
  command that leaves OPERATIONAL leaves it open. The trace has PRE_OPERATIONAL;
  STOP does the same.
* `signal_out_of_bounds`: the codec has an error for a signal that "does not fit
  in {3} bytes" (`embrig-dbc/src/codec.rs:10`), but `write_signal` and
  `read_signal` look at the position of the value's highest bit only
  (`codec.rs:146`, `170`). For a Motorola signal that is the one in the first
  byte, so a signal that runs behind the data panics.

Seen while modelling, and visible in the modules, without a run of its own:

* The TCP simulation promises in-order delivery on a connection
  (`embrig-net/src/tcp.rs:8-9`); a delay rule with a window lets a later message
  overtake an earlier one. `OvertakenOnlyWhenDelayed` says how far that goes.
* The charger is documented to charge "while the battery is healthy"
  (`embrig-models/src/ecus.rs:46-47`); `ChargerState` never looks at the
  battery's state.
* `poll` is documented to return the most recent frame
  (`embrig-test/src/target.rs:100`); after a stall the rest-bus target returns
  the echo of an older one. `NewestOnceDrained` says for how long.
* `reset` is documented to leave a fresh state (`embrig-test/src/target.rs:184`);
  `HardwareTarget::reset` does nothing, so frames sent before it are still polled
  after it.
* `run_until` is documented to end "with the clock exactly at `t`"
  (`embrig-core/src/network.rs:501-502`); it ends up to a step behind it when `t`
  is no multiple of the step. `RunStopsAtTarget` says "at or behind".
* `embrig report` is documented to write `report.html` by default
  (`embrig-cli/src/main.rs:76`); with `--format json` it is `report.json`.

`embrig test` compares paths, not files, and no document promises more: a file
that is named by two spellings that `Path` takes for different ones (`tests` and
`./tests/a.yaml`) runs twice. `RunsAsNamed` says exactly how often.

What `ExitTells` leaves open, because the code does: a report of an earlier run
stays on the disk when `--check` fails or the suite is aborted; an unknown report
format is noticed only when the suite has run; a default directory of tests that
is empty gives a suite without tests, which passes; on a UDP target the loopback
of `--check` always fails.

## 5. Proofs

Eight modules hold theorems. Every proof is by an inductive invariant with a
lemma for `Init` and one per action or group of actions; the last step of each
theorem combines them with `PTL`. The assumptions are the modules' named
`ASSUME`s, which TLC evaluates in the runs, and what the table names. Bounds such
as `MaxMessages` or `MaxTime` only disable actions; nothing in the proofs
depends on their values, so the theorems hold for runs of any length.

| Theorem | Property | Inductive invariant |
|---|---|---|
| **`NetworkSimProofs`** | | |
| `TypeCorrect` | `TypeOK` | itself; the last conjunct, that subscriptions name attached ECUs, is why `deliver` cannot index out of range |
| `RunStops` | `RunStopsAtTarget` | itself on top of `TypeOK`: `EndTick` tests the clock it has just advanced |
| `DeliveredOnTime` | `OnTime` | `Pacing`: what is on the delay list has a release time less than a step ago at the start of a tick and lies in the future once `TakeDue` has run; what is due has a release time in the last step; a held message's time stamp is its release time. `OnTime` alone says nothing of `due`, and nothing of the delay list inside a tick |
| `OneFate` | `ExactlyOneFate` | `Split`: the ids in `outbound`, in `delayed \cup due` and in settled records are three disjoint sets that make up `0 .. nextId - 1`, each without repetition. Every action moves one id from one set to another, or adds fresh ones |
| `FirstRuleDecides` | `FirstActiveRuleDecides` | `Ruled`: every settled record and every held message is as the rules of the tick of its birth say (`AsRuled`), and what waits for its route was born in this tick, behind all rules that are there. A rule that is added later has a later number, so it does not change which rules those were |
| `EveryoneHears` | `FanOut` | `Heard`: no subscription is newer than the log; every inbox holds recorded messages only, in the log's order, each as often as its ECU was subscribed by then. It needs `Split`: the message that is delivered has not been delivered before, so its count starts from 0 |
| `OneOrder` | `BroadcastOrder` | the same |
| `NoOtherOvertaking` | `OvertakenOnlyWhenDelayed` | `Ordered`: what waits for its route ascends by number behind every message routed before (`InTurn`), and what was released in this tick precedes what is still due (`Released`). It needs `Split` too: what is due has not been delivered before |
| **`TestRunnerProofs`** | | |
| `PassesInBudget`, `OverrunIsBounded`, `EveryTestIsReported` | `PassedInBudget`, `OverrunBounded`, `EveryTestReported` | `IInv`: while a test runs its clock is within its budget (`Placed`), every result there is is sound (`ResultsSound`), and there is one for each file before the current one |
| `TestsAreIsolated` | `OnlyOwnSteps` | `OwnInv`: as long as a test runs, its simulation is whole and every fault rule has its place by the fault steps up to its own (`RulesOwn`), and overrides, frames and time each have a step behind them; with `RuleList`, that the rules are a list of rules with a time. A step that passes adds one step to `Done` and at most what its kind adds (`StepOwn`), one that fails or panics ends the test, and `Reset` empties both sides (`ResetOwn`) |
| `PresenceIsKnown` | `PresenceKnown` | itself, with `Recorded`: the recorder shows a frame if and only if one has arrived |
| `NeverPanics` | `StepsNeverPanic` | `Placed`: a file whose steps run has passed the loader's checks |
| `DropsHold` | `DropHolds` | `DInv`: every rule in force ends, if at all, where its file means it to (`RulesSound`), what the vehicle sent is recorded before now, and no record of it lies in the window of a rule that was there (`KeptOff`) |
| **`PowertrainProofs`** | | |
| `FaultNeverAlone` | `ChargerFaultNeverAlone` | `SameBattery`: the charger and the VCU saw their last battery frame at the same moment |
| `MotorStops` | `MotorStopsInTime` | `Timers` and `StopsInv`: how old the permission may be that is in a queued, a heard and a reported value, one bound for each stage from the VCU to the motor |
| `MotorResumes` | `MotorResumesInTime` | `Timers` and `ResumesInv`: the same from the charger on, through three ECUs |
| **`CanOpenNodeProofs`** | | |
| `ValveLaw` | `OperationalLaw` of the node | itself: both handlers re-evaluate the valve where they may have broken it |
| `ReportedInTime` | `Reported` of the node | `Carried`, for each of the two frames: since the frame's last transmission the bus carries the value, or is about to, unless the value has changed since |
| **`SilFirmwareProofs`** | | |
| `NodeImplemented` | `ImplementsNode`, and that the first state is the node's | `CanOpenInv`, below, with one lemma per action that names the node's step it is |
| `ValveObeys` | `OperationalLaw` | the same with the invariant of `CanOpenNodeProofs` read through the refinement mapping (`CanOpenHolds`) |
| `DecisionsReported` | `Reported` | the same; for the pump `PumpInv`, which is `Carried` of its one frame |
| `CommandsHeard` | `CommandsArrive` | `Settled` of `CanOpenInv` |
| `RoverObeys` | `RobotObeys` | `Commanded` (the firmware has decoded the newest values any frame has carried) and `Carried`; the clamp of a wheel is the nearest value within its limit (`ClampIsNearest`) |
| **`LiveLinkProofs`** | | |
| `KeepsPace` | `Paced` | `Behind` and, when the period is a multiple of the step, `Exact`: the next transmission is `sent` periods from the start and less than a period ahead |
| `NewestShown` | `NewestOnceDrained` | `Drained`: the newest frame is behind every older one in the socket, or has been recorded |
| `OnceEachWay` | `EveryFrameOnce` | `Counted`: the node's frames are numbered by their place among its frames on the wire, and what is still to be sent goes on from there; `Injected`: what was injected and what waits in the socket is, in order, all that was on the wire |
| `NothingLost` | `EveryMessageInOnePlace` | `Account`: returned, queued and waiting messages form one ordered line which, with those thrown away, is all that arrived |
| `EveryoneHasATurn` | `ReachedInTurn` | `Turns`: a message has at least one turn left for each that waits before it |
| **`CommandLineProofs`** | | |
| `OnlyWhereNamed` | `RunsWhereNamed` | `Where`, from `TestBegins` on, with `CommandAt`: which command stands where |
| `TestsRunAsNamed` | `RunsAsNamed` | `Listed`: the results and the queue together are the list that was resolved. `ResolveFacts` says of that list that it is what the inputs stand for and one to one, because `Sort` brings equal paths together (`SortSorts`) and `Dedup` keeps one of neighbours (`DedupDedups`); both are counted, so no induction on their definitions is needed. A list that has each path once leads to a file as often as there are paths to it (`PathsPerFile`) |
| `InitLosesNothing` | `InitKeepsFiles` | `InitInv`: an `init` that writes without `--force` found no file of the scaffold (`Free`), what it has still to write is the end of the scaffold and all before that is written (`Half`) |
| `CodeTells` | `ExitTells` | `TestInv`: `Listed` becomes `Complete` with the last test, `Complete` becomes `Told` with the report; `ReportInv` for the `report` command |
| **`VehiclesProofs`** | | |
| `NetworkShowsFile` | `NetworkIsFile` | `ParsedOk`: after every line the network is what the lines read say (`NetworkSays`, the property without the state), and the message that signals are added to is that of the last `BO_` line (`CurrentSays`); without the latter an `SG_` line could go to another message |
| `NodesSendOnTime` | `SendsWhenDue` | `CanState`: lists of the ECUs side by side, well-formed messages and values that hold in them, and the pace: the next transmission is one period behind the last. With `SoundEncodes`: a message whose signals lie within its data always encodes, into at most 8 bytes, whatever is set |
| `FramesTell` | `FramesShowValues` | `CanState`: every value a node holds fits its signal, because `BuildEcu` and `SetSignal` let no other through (`Holds`). With `EncodedShows`: of a sound message, encoded with such values, a receiver and the codec read each within half a step, for any number of signals, any layout and both byte orders |
| `PollsShowFields` | `PollShowsFields` | `EthState`: what waits and what is shown is the untouched encoding of what its ECU was told then (`Mail`), or marked as not. With `DecodesToSaid`: decoding an encoding reads back what was given, for every message of disjoint fields |
| `OverridesDo` | `OverridesTakeEffect` | `EthPace`: an ECU's next transmission is at most a period ahead of the last tick and never behind it (`Paced`), and an endpoint that nothing has disturbed since its ECU last sent shows what it sent then, which is what is set now (`Fresh`) |

Some theorems need more than the modules assume. `FaultNeverAlone` and
`MotorStops` need `VcuLimit <= ChargerLimit`: the VCU's battery timeout (300 ms)
is not the longer one (500 ms); with the opposite the charger would fault first
and the VCU learn of it a charger period late. `MotorResumes` does not need it.
`DropsHold` needs `WindowsFit`: no
fault window in the suite ends beyond the width of the clock; without it
`DropHolds` is false, which is what `fault_duration_wraps` shows. The commands
of `CommandLine` are any that the argument parser lets through (`IsCommand`), in
any project whose listings are consistent (`ProjectAssumption`).

**The CANopen example, from bytes to the valve law.** The theorems of
`CanOpenNodeProofs` are about `CanOpenNode`, for any positive step and periods.
`SilFirmwareProofs` instantiates that module with the mapping of `Abstract`
(`Node`), proves that `CanOpenBus` takes only its steps, and so has its
invariant and its lemmas for the example on its bus. What this needs of the
concrete side is `CanOpenInv`:

* the node is in one of the states with a code, each master holds values that
  `Check` has let through (`MastersShape`) and was told values it once held;
* the list of a tick has at most one frame of each identifier
  (`PushedShape`), and the masters' frames on it are what their masters were told
  (`AsTold`): without this `EndTick` could put an older frame of a kind on the
  bus than the abstract node does, and a routed command need not be the newest;
* the bus holds nothing, or one of the two valve frames and one of the heartbeats
  (`BusShape`);
* `Settled`: what a master was told has a frame still to be routed (`Pending`), or
  the node has heard it: its temperature is `Near`, its state is as commanded
  (`Obeyed`). Between ticks nothing is pending, so it has been heard.

`UpdateRefines` needs that the frame of a valve decodes to that valve and the one
of a state to that state, `RouteRefines` that every frame a master sends is to
the handler a command or a temperature of the abstract node. Both rest on the
lemmas about the codec: `BitsOf` (a number that fits its bits is the sum of
them), `ByteAndBack`, and `PdoAndBack`: in a PDO of one signal at bit 0, of 1 or
16 bits, every raw value that fits is read back as it was written. The sum over a
set of bits is a fold that takes them in an arbitrary order; `AddsTo` has a function
on all sets of bits that falls by the power of whichever bit is taken away, and
`FromBitsIs` that every such fold is its value. `PowersAre` has the powers of two
(`Power` of `DbcCodec`) as the recursive function they are declared as. The
theorems hold for every step, period and number of
ticks; the layout of `eds.yaml`, the first values of `vehicle.yaml` and the set of
values that a test may set are those of `MCSilFirmware`.

**The vehicles, for every file and netmap.** The codecs and the parser are loops
over the fields of a message, the signals of a message and the pairs of a value
table. In the modules these are folds, and the prover has no induction over a
fold. `Induction` supplies it for sets of numbers, by a least counterexample, and
`FoldExists` with it that a fold over `1 .. n` is the last of a chain of values,
each made from the one before it. So `EncodeChain` and `EncodeSteps` have the
payload behind each field and the data behind each signal, and `TableSteps` the
table behind each pair; what holds of a link is then proved from the one before
it (`BehindNext`, `SoundSteps`, `OnePairMore`).

* *Netmap.* A field that is written keeps all other fields' bytes (`BehindNext`,
  for `Apart` fields), the bytes of a number and back are the number
  (`OneByte`, `TotalIs`, for any byte size), rounding is off by half a step at
  most (`RoundedIs`); together `DecodesToSaid`.
* *Ethernet.* A tick is taken apart in `TickIs`. Its delayed and routed messages
  are finite sets, so there is a newest one (`LastDelayed`, `LastSent`), which
  `NewestIs` says is what an endpoint shows.
* *DBC.* `FlatIs` and `PositionsAre` give the recursive definition of a signal's
  bit positions in closed form for both byte orders, so that every position is
  known to lie in a byte and at one of its bits. From there the bits of a frame are
  followed through the codec: no two bits of a signal have one place
  (`PlacesDiffer`), writing a signal sets its own bits and leaves those of the
  others, in a message that is `Sound` (`WriteSets`), so at the end each signal has
  the bits of its number and a signal without one has none (`EncodedBits`). A
  receiver looks for a bit where the codec put it (`ReceiverSees`), and the number
  that fits comes back from its bits, the negative ones by their sign
  (`BitsAdd`, `BitsComeBack`).
* *Parser.* The property is restated as a function of the lines and their number
  (`MessageSays`), and `BoSays`, `SgSays`, `ValSays` and `Untouched` say what one
  more line does to it. A signal keeps its place when lines follow (`PlaceNext`),
  and a value table goes to the first signal of its name (`IndexIs`), also when
  that name comes up again (`IndexLonger`).

Model-checked only: the liveness properties `RunReturns`, `SuiteReturns` and
`CallReturns` (liveness under fairness is out of the prover's reach).

## 6. What is not modelled

* Integer width outside of test files: the engine's clock, and delays added to
  it, are unbounded naturals in `NetworkSim`. Where a width matters, in the
  durations of `TestFile`, it is `Top`. Debug builds, which panic where release
  builds wrap, are not modelled.
* `set_signal`/`set_field` on the engine: they forward to an ECU, and an ECU of
  `NetworkSim` may do anything. In `TestRunner` an override is a flag;
  `ConfigVehicle`, `EthVehicle` and `CanOpenBus` have the overrides themselves.
  `recorder_mut` and the recorder's `clear` hand the recorder to a caller.
* Of the firmware registry only the lookup of a name; of `sil_run` and its
  variants nothing: they build a runtime and call `run_suite`.
* Protocols that a program registers besides the four of the registry, and the
  SocketCAN ids and error frames: pure conversions, or code outside of the
  repository.
* The rounding of a wheel speed between two raw values: the steering values of
  `RobotNode` are even. In the CANopen codec, PDO signals that neither lie in
  whole bytes nor are the example's, and the parsing of `eds.yaml`.
* DBC signals of 64 bits and of none, the floating types of a netmap, and the rounding
  inside of `f64`: physical values are whole numbers in the modules, which has
  no counterpart to a double's mantissa.
* `reset` of the UDP targets reads the netmap again; in the module the file does
  not change.
* The content of messages in a suite beyond one watched value; which tests pass
  in `CommandLine`, where an outcome is chosen freely.
* Two commands at once in one project: `init` looks before it writes, and
  another process may write in between.
* The text level of the parsers (YAML, DBC), of reports and of templates, and
  the styles of output: formatting without state that changes.
