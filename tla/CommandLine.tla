---------------------------- MODULE CommandLine ----------------------------
(***************************************************************************)
(* The `embrig` command (crates/embrig-cli/src/commands.rs, main.rs), the  *)
(* protocol registry it builds a target with (embrig-test/src/protocol.rs) *)
(* and the reports it writes (report.rs).  A user runs one command after   *)
(* the other in one project, edits its files in between, and may kill a    *)
(* command at any moment; every write to the disk may fail.                *)
(*                                                                         *)
(* A command is one of                                                     *)
(*   [cmd |-> "init", force]                                               *)
(*   [cmd |-> "simulate", duration]       duration: whether it parses      *)
(*   [cmd |-> "test", inputs, interface, check, report, format]            *)
(*   [cmd |-> "report", input, report, format]                             *)
(* where interface and report, the file to write, may be None.             *)
(*                                                                         *)
(* A vehicle is [loads, dbc, netmap, interfaces, tests]; dbc and netmap    *)
(* are "none" (not in vehicle.yaml), "missing" (no such file), "broken" or *)
(* "ok"; interfaces maps the declared names to [kind, device]; tests is    *)
(* the directory `tests` next to vehicle.yaml, or None.                    *)
(*                                                                         *)
(* The run of a test file passes, fails, or ends the suite with an error;  *)
(* how is in TestRunner.                                                   *)
(***************************************************************************)
EXTENDS Integers, Sequences, SequencesExt, FiniteSets

CONSTANTS
  Commands,      (* what the user may type                                 *)
  Vehicles,      (* what vehicle.yaml may hold                             *)
  Scaffold,      (* the files of a new project, in the order of cmd_init   *)
  Reports,       (* the files that reports are written to                  *)
  PathOrder,     (* every path to a test file, in the order of sort(); two *)
                 (* spellings of one file that Path takes for different    *)
                 (* are two paths                                          *)
  FileOf,        (* the file each path leads to                            *)
  Yaml,          (* the paths that end in .yaml or .yml                    *)
  Listing,       (* the paths in each directory                            *)
  InCwd,         (* what an input is, seen from the working directory: a   *)
                 (* path, a directory, or None                             *)
  NextToVehicle, (* the same, seen from the directory of vehicle.yaml      *)
  None

Paths == {PathOrder[i] : i \in DOMAIN PathOrder}

\* What a directory holds, and what an input turns out to be.
ASSUME ProjectAssumption ==
  /\ PathOrder \in Seq(Paths)
  /\ DOMAIN FileOf = Paths
  /\ Scaffold \in Seq({Scaffold[i] : i \in DOMAIN Scaffold})
  /\ {"report.json", "report.html"} \subseteq Reports
  /\ \A dir \in DOMAIN Listing : Listing[dir] \subseteq Paths
  /\ DOMAIN NextToVehicle = DOMAIN InCwd
  /\ \A input \in DOMAIN InCwd :
       {InCwd[input], NextToVehicle[input]} \subseteq Paths \cup DOMAIN Listing \cup {None}
  /\ \A v \in Vehicles : v.tests \in DOMAIN Listing \cup {None} /\ None \notin DOMAIN v.interfaces
  /\ None \notin Paths \cup DOMAIN Listing \cup Reports
  /\ None \notin {0, 1, 2}

\* What clap lets through; `inputs` are the paths as they are typed.
IsCommand(c) ==
  \/ c.cmd = "init" /\ DOMAIN c = {"cmd", "force"} /\ c.force \in BOOLEAN
  \/ c.cmd = "simulate" /\ DOMAIN c = {"cmd", "duration"}
  \/ /\ c.cmd = "test"
     /\ DOMAIN c = {"cmd", "inputs", "interface", "check", "report", "format"}
     /\ c.inputs \in Seq(DOMAIN InCwd)
     /\ c.report \in Reports \cup {None}
  \/ /\ c.cmd = "report"
     /\ DOMAIN c = {"cmd", "input", "report", "format"}
     /\ c.input \in Reports
     /\ c.report \in Reports \cup {None}

ASSUME CommandsAssumption ==
  /\ \A c \in Commands : IsCommand(c)
  /\ None \notin Commands
  /\ \A c \in Commands, path \in Reports :
       c.cmd = "report" => [c EXCEPT !.report = path] # None

VARIABLES
  vehicle,
  socketcan,     (* whether the build has the socketcan feature            *)
  files,         (* the contents of Scaffold and Reports                   *)
  command,       (* the command that runs, or ran last; None after an edit *)
  pc,            (* "shell", the command's name, or where it stands        *)
  queue,         (* files still to be written, or tests still to be run    *)
  target,        (* [kind, device] of the target that was built, or None   *)
  results,       (* the suite: [test, passed] per test                     *)
  exit,          (* the exit code; None while it runs and after a kill     *)
  before         (* files when an init began                               *)

vars == <<vehicle, socketcan, files, command, pc, queue, target, results, exit, before>>
machine == <<vehicle, socketcan>>

Absent == [is |-> "absent"]
Torn == [is |-> "torn"]
Template == [is |-> "template"]
UserText == [is |-> "user"]

-----------------------------------------------------------------------------
(* protocol.rs.                                                            *)

Carrier == {"socketcan", "restbus"}

\* A protocol is how its target is built: what it needs of the vehicle.
VirtualProtocol == [feature |-> FALSE, needs |-> "dbc"]
UdpProtocol == [feature |-> FALSE, needs |-> "netmap"]
SocketcanProtocol == [feature |-> TRUE, needs |-> "dbc"]
RestBusProtocol == [feature |-> TRUE, needs |-> "dbc"]

\* register: a second protocol of the same kind replaces the first.
Register(registry, kind, protocol) ==
  [k \in DOMAIN registry \cup {kind} |-> IF k = kind THEN protocol ELSE registry[k]]

DefaultRegistry ==
  Register(Register(Register(Register(<<>>,
    "virtual", VirtualProtocol), "udp", UdpProtocol),
    "socketcan", SocketcanProtocol), "restbus", RestBusProtocol)

\* build, but for the opening of a socket.  Without the feature the two
\* protocols over a socket are placeholders that only explain themselves.
Buildable(registry, kind) ==
  /\ kind \in DOMAIN registry
  /\ registry[kind].feature => socketcan
  /\ vehicle[registry[kind].needs] = "ok"

\* The kernel interface of a protocol over a socket.
SocketcanInterface(interface) ==
  IF interface = None THEN "vcan0"
  ELSE IF interface \in DOMAIN vehicle.interfaces /\ vehicle.interfaces[interface].device # None
  THEN vehicle.interfaces[interface].device
  ELSE interface

-----------------------------------------------------------------------------
(* report.rs.                                                              *)

Passed(suite) == Cardinality({i \in DOMAIN suite : suite[i].passed})
Failed(suite) == Len(suite) - Passed(suite)

Json(suite) == [is |-> "json", tests |-> suite]

\* The page: the two counts, and a row for every test.
Html(suite) ==
  [is |-> "html", passed |-> Passed(suite), failed |-> Failed(suite), rows |-> suite]

Formats == {"json", "html"}
Render(suite, format) == IF format = "json" THEN Json(suite) ELSE Html(suite)

\* load_json reads what json wrote, and nothing else.
IsJson(content) == content.is = "json"

-----------------------------------------------------------------------------
(* Which tests, on which target.                                           *)

Located(input) == IF InCwd[input] # None THEN InCwd[input] ELSE NextToVehicle[input]

\* sort, and dedup, which drops an entry that equals the one before it.
Rank(path) == CHOOSE i \in DOMAIN PathOrder : PathOrder[i] = path
Position(s, i) == Cardinality({j \in DOMAIN s : \/ Rank(s[j]) < Rank(s[i])
                                                \/ Rank(s[j]) = Rank(s[i]) /\ j <= i})
Sort(s) == [n \in DOMAIN s |-> s[CHOOSE i \in DOMAIN s : Position(s, i) = n]]
Dedup(s) == LET kept == {i \in DOMAIN s : i = 1 \/ s[i] # s[i - 1]}
            IN  [i \in 1 .. Cardinality(kept) |->
                   s[CHOOSE k \in kept : Cardinality({j \in kept : j <= k}) = i]]

\* collect_suites: the YAML files of a directory, in the order in which read_dir
\* finds them, sorted; not those below.
CollectSuites(dir) == Sort(SetToSeq(Listing[dir] \cap Yaml))

Expanded(path) == IF path \in DOMAIN Listing THEN CollectSuites(path) ELSE <<path>>

\* Mutant: the list is not sorted before it is deduplicated.
ResolveUnsorted(inputs) == Dedup(FlattenSeq([i \in DOMAIN inputs |-> Expanded(Located(inputs[i]))]))

Resolve(inputs) == Dedup(Sort(FlattenSeq([i \in DOMAIN inputs |-> Expanded(Located(inputs[i]))])))

AllFound(inputs) == \A i \in DOMAIN inputs : Located(inputs[i]) # None

\* The tests a command selects; an empty default directory is no error.
Selected(c) == IF c.inputs = <<>> THEN CollectSuites(vehicle.tests) ELSE Resolve(c.inputs)
Selectable(c) ==
  IF c.inputs = <<>> THEN vehicle.tests # None
  ELSE AllFound(c.inputs) /\ Resolve(c.inputs) # <<>>

\* Mutant: a name that is not declared runs on the simulation.
KindOrVirtual(interface) ==
  IF interface \in DOMAIN vehicle.interfaces THEN vehicle.interfaces[interface].kind ELSE "virtual"

\* interface_kind: a name that is not declared is a kernel interface.
Kind(interface) ==
  IF interface = None THEN "virtual"
  ELSE IF interface \in DOMAIN vehicle.interfaces THEN vehicle.interfaces[interface].kind
  ELSE "socketcan"

-----------------------------------------------------------------------------
(* The disk, the shell and the user.                                       *)

Written(path, content) == files' = [files EXCEPT ![path] = content]

\* fs::write truncates first: what was there may be gone.
WriteFails(path) == UNCHANGED files \/ Written(path, Torn)

Exit(code) == pc' = "shell" /\ exit' = code

RunCommand ==
  /\ pc = "shell"
  /\ \E c \in Commands :
       /\ command' = c
       /\ pc' = c.cmd
       /\ before' = IF c.cmd = "init" THEN files ELSE <<>>
  /\ queue' = <<>> /\ results' = <<>> /\ target' = None /\ exit' = None
  /\ UNCHANGED <<machine, files>>

UserEdits ==
  /\ pc = "shell"
  /\ \E path \in DOMAIN files : Written(path, Absent) \/ Written(path, UserText)
  /\ command' = None /\ exit' = None /\ before' = <<>>
  /\ queue' = <<>> /\ results' = <<>> /\ target' = None
  /\ UNCHANGED <<machine, pc>>

\* The user kills the command, maybe in the middle of a write.
Killed ==
  /\ pc # "shell"
  /\ Exit(None)
  /\ CASE pc = "write" /\ queue # <<>> -> WriteFails(Head(queue))
       [] pc = "render" -> WriteFails(command.report)
       [] OTHER -> UNCHANGED files
  /\ UNCHANGED <<machine, command, queue, target, results, before>>

-----------------------------------------------------------------------------
(* cmd_init.                                                               *)

AnyExists == \E i \in DOMAIN Scaffold : files[Scaffold[i]] # Absent

\* Mutant: each file is checked when its turn to be written has come.
InitChecksLate ==
  /\ pc = "init"
  /\ \/ files[Scaffold[1]] # Absent /\ ~command.force /\ Exit(2) /\ UNCHANGED queue
     \/ /\ files[Scaffold[1]] = Absent \/ command.force
        /\ queue' = Scaffold /\ pc' = "write" /\ UNCHANGED exit
  /\ UNCHANGED <<machine, files, command, target, results, before>>

\* Every file is looked at before the first is written.
InitChecks ==
  /\ pc = "init"
  /\ \/ AnyExists /\ ~command.force /\ Exit(2) /\ UNCHANGED queue
     \/ /\ ~AnyExists \/ command.force
        /\ queue' = Scaffold /\ pc' = "write" /\ UNCHANGED exit
  /\ UNCHANGED <<machine, files, command, target, results, before>>

\* A directory cannot be created.
InitHasNoDir ==
  /\ pc = "init"
  /\ Exit(2)
  /\ UNCHANGED <<machine, files, command, queue, target, results, before>>

InitWrites ==
  /\ pc = "write" /\ queue # <<>>
  /\ \/ Written(Head(queue), Template) /\ queue' = Tail(queue) /\ UNCHANGED <<pc, exit>>
     \/ WriteFails(Head(queue)) /\ Exit(2) /\ UNCHANGED queue
  /\ UNCHANGED <<machine, command, target, results, before>>

InitDone ==
  /\ pc = "write" /\ queue = <<>>
  /\ Exit(0)
  /\ UNCHANGED <<machine, files, command, queue, target, results, before>>

-----------------------------------------------------------------------------
(* cmd_simulate writes nothing.                                            *)

Simulate ==
  /\ pc = "simulate"
  /\ IF vehicle.loads /\ vehicle.dbc = "ok" /\ command.duration THEN Exit(0) ELSE Exit(2)
  /\ UNCHANGED <<machine, files, command, queue, target, results, before>>

-----------------------------------------------------------------------------
(* cmd_test.                                                               *)

\* The vehicle, the tests, the interface: any error ends the command.
TestReady ==
  /\ vehicle.loads
  /\ vehicle.dbc # "missing"
  /\ Selectable(command)
  /\ Kind(command.interface) # "sil"
  /\ Buildable(DefaultRegistry, Kind(command.interface))

TestRefused ==
  /\ pc = "test"
  /\ ~TestReady \/ Kind(command.interface) \in Carrier    \* the socket cannot be opened
  /\ Exit(2)
  /\ UNCHANGED <<machine, files, command, queue, target, results, before>>

TestBegins ==
  /\ pc = "test"
  /\ TestReady
  /\ target' = [kind |-> Kind(command.interface),
                device |-> IF Kind(command.interface) \in Carrier
                           THEN SocketcanInterface(command.interface) ELSE None]
  /\ queue' = Selected(command)
  /\ pc' = IF command.check THEN "check" ELSE "run"
  /\ UNCHANGED <<machine, files, command, results, exit, before>>

\* run_loopback: an Ethernet target has no bus to send the frame on, the
\* simulation always hands it back, a real bus may or may not; the reset before
\* it may fail.
Loopback ==
  /\ pc = "check"
  /\ \/ target.kind # "udp" /\ pc' = "run" /\ UNCHANGED exit
     \/ target.kind # "virtual" /\ Exit(1)
     \/ Exit(2)
  /\ UNCHANGED <<machine, files, command, queue, target, results, before>>

\* run_suite with one file.
RunTest ==
  /\ pc = "run" /\ queue # <<>>
  /\ \/ \E passed \in BOOLEAN :
          results' = Append(results, [test |-> Head(queue), passed |-> passed])
        /\ queue' = Tail(queue)
        /\ UNCHANGED <<pc, exit>>
     \/ Exit(2) /\ UNCHANGED <<queue, results>>
  /\ UNCHANGED <<machine, files, command, target, before>>

\* What a command that got to its end exits with.
Verdict(c) == IF c.cmd = "test" /\ Failed(results) > 0 THEN 1 ELSE 0

SuiteEnds ==
  /\ pc = "run" /\ queue = <<>>
  /\ IF command.report = None THEN Exit(Verdict(command)) ELSE pc' = "render" /\ UNCHANGED exit
  /\ UNCHANGED <<machine, files, command, queue, target, results, before>>

\* Mutant: a report that cannot be written is not an error.
WriteReportAnyway ==
  /\ pc = "render"
  /\ Exit(Verdict(command))
  /\ IF command.format \in Formats
     THEN Written(command.report, Render(results, command.format)) \/ WriteFails(command.report)
     ELSE UNCHANGED files
  /\ UNCHANGED <<machine, command, queue, target, results, before>>

\* write_report; a format that does not exist is only noticed here.
WriteReport ==
  /\ pc = "render"
  /\ \/ /\ command.format \in Formats
        /\ Written(command.report, Render(results, command.format))
        /\ Exit(Verdict(command))
     \/ /\ IF command.format \in Formats THEN WriteFails(command.report) ELSE UNCHANGED files
        /\ Exit(2)
  /\ UNCHANGED <<machine, command, queue, target, results, before>>

-----------------------------------------------------------------------------
(* cmd_report; the output is named after the format when it is not given.  *)

LoadReport ==
  /\ pc = "report"
  /\ IF IsJson(files[command.input])
     THEN /\ results' = files[command.input].tests
          /\ command' = [command EXCEPT !.report =
               IF @ # None THEN @ ELSE IF command.format = "json" THEN "report.json" ELSE "report.html"]
          /\ pc' = "render"
          /\ UNCHANGED exit
     ELSE Exit(2) /\ UNCHANGED <<results, command>>
  /\ UNCHANGED <<machine, files, queue, target, before>>

-----------------------------------------------------------------------------

Init ==
  /\ vehicle \in Vehicles
  /\ socketcan \in BOOLEAN
  /\ files = [path \in {Scaffold[i] : i \in DOMAIN Scaffold} \cup Reports |-> Absent]
  /\ command = None
  /\ pc = "shell"
  /\ queue = <<>>
  /\ target = None
  /\ results = <<>>
  /\ exit = None
  /\ before = <<>>

Next ==
  \/ RunCommand \/ UserEdits \/ Killed
  \/ InitChecks \/ InitHasNoDir \/ InitWrites \/ InitDone
  \/ Simulate
  \/ TestRefused \/ TestBegins \/ Loopback \/ RunTest \/ SuiteEnds \/ WriteReport
  \/ LoadReport

Spec == Init /\ [][Next]_vars

-----------------------------------------------------------------------------
(* Properties.                                                             *)

Ended(cmd) == pc = "shell" /\ command # None /\ command.cmd = cmd

\* The tests the user asked for: the files among the inputs, and the YAML files
\* in the directories among them.
Asked ==
  LET places == IF command.inputs = <<>> THEN {vehicle.tests}
                ELSE {Located(command.inputs[i]) : i \in DOMAIN command.inputs}
  IN  (places \ DOMAIN Listing) \cup ((UNION {Listing[d] : d \in places \cap DOMAIN Listing}) \cap Yaml)

RanTests == {results[i].test : i \in DOMAIN results}

\* The exit code tells what happened (main.rs:9), whatever failed on the way: 0
\* only when every test that was asked for ran and passed, 1 only when all ran
\* and one failed, or the loopback did before any; and then the report that was
\* asked for is on the disk, shows every test, and counts what ran.
ExitTells ==
  /\ Ended("test") /\ exit \in {0, 1} =>
       \/ /\ RanTests = Asked
          /\ (exit = 0) = (\A i \in DOMAIN results : results[i].passed)
          /\ command.report # None =>
               LET report == files[command.report]
               IN  /\ report.is = command.format
                   /\ report.is = "json" => report.tests = results
                   /\ report.is = "html" => /\ report.rows = results
                                            /\ report.failed > 0 <=> exit = 1
       \/ exit = 1 /\ command.check /\ results = <<>>
  /\ Ended("report") /\ exit = 0 => files[command.report].is = command.format

\* init without --force changes no file that is there, and when it refuses it
\* has written nothing, in whatever state an earlier init that failed or was
\* killed has left the project; and when it succeeds the project is whole.
InitKeepsFiles ==
  command # None /\ command.cmd = "init" =>
    /\ ~command.force => \A path \in DOMAIN files :
         before[path] # Absent => files[path] = before[path]
    /\ ~command.force /\ exit = 2 /\ (\E i \in DOMAIN Scaffold : before[Scaffold[i]] # Absent) =>
         files = before
    /\ exit = 0 => \A i \in DOMAIN Scaffold : files[Scaffold[i]] = Template

\* A suite is the list of paths its inputs stand for, with no path left out and
\* none twice, in whatever way they name files and directories that overlap.
\* Paths are told apart, not files (commands.rs:266): a file runs as often as
\* there are different paths among them that lead to it, so `tests ./tests/a.yaml`
\* runs a.yaml twice and `tests tests/a.yaml` once.
RunsAsNamed ==
  pc = "run" =>
    LET all == [i \in DOMAIN results |-> results[i].test] \o queue
    IN  /\ {all[i] : i \in DOMAIN all} = Asked
        /\ \A file \in {FileOf[p] : p \in Paths} :
             Cardinality({i \in DOMAIN all : FileOf[all[i]] = file})
               = Cardinality({p \in Asked : FileOf[p] = file})

\* A suite never runs, and so never passes, on anything but what the user named:
\* a name the vehicle does not declare is an interface of this machine, a
\* declared one is of its kind, and only without a name is it the simulation.
RunsWhereNamed ==
  pc \in {"check", "run"} =>
    LET name == command.interface
    IN  CASE name = None -> target.kind = "virtual"
          [] name \in DOMAIN vehicle.interfaces -> target.kind = vehicle.interfaces[name].kind
          [] OTHER -> target = [kind |-> "socketcan", device |-> name] /\ socketcan
=============================================================================
