--------------------------- MODULE MCCommandLine ---------------------------
(* One project with two YAML tests and a note beside them, seen from its   *)
(* parent directory, which has a test of its own.  One of the tests is     *)
(* typed in two ways, which are different paths.  Vehicles that can and    *)
(* cannot be built; every command in several forms.                        *)
EXTENDS CommandLine

MCScaffold == <<"vehicle.yaml", "tests/a.yaml">>
MCReports == {"report.json", "report.html"}

MCPathOrder == <<"./p/tests/a.yaml", "a.yaml", "p/tests/a.yaml", "p/tests/b.yml", "p/tests/note.txt">>
MCFileOf == [p \in {MCPathOrder[i] : i \in DOMAIN MCPathOrder} |->
  IF p = "./p/tests/a.yaml" THEN "p/tests/a.yaml" ELSE p]
MCYaml == {"./p/tests/a.yaml", "a.yaml", "p/tests/a.yaml", "p/tests/b.yml"}
MCListing == [d \in {"p/tests", "p/empty"} |->
  IF d = "p/tests" THEN {"p/tests/a.yaml", "p/tests/b.yml", "p/tests/note.txt"} ELSE {}]

\* Two inputs exist in one place only, one in both.
MCInCwd ==
  [i \in {"./p/tests/a.yaml", "a.yaml", "tests", "empty", "nowhere", "p/tests/b.yml"} |->
    IF i \in MCYaml THEN i ELSE None]
MCNextToVehicle == [i \in DOMAIN MCInCwd |->
  CASE i = "tests" -> "p/tests" [] i = "empty" -> "p/empty" [] i = "a.yaml" -> "p/tests/a.yaml"
    [] OTHER -> None]

Interfaces ==
  [n \in {"eth", "bench", "rest", "fw", "odd"} |->
     CASE n = "eth" -> [kind |-> "udp", device |-> None]
       [] n = "bench" -> [kind |-> "socketcan", device |-> "can1"]
       [] n = "rest" -> [kind |-> "restbus", device |-> None]
       [] n = "fw" -> [kind |-> "sil", device |-> None]
       [] n = "odd" -> [kind |-> "flexray", device |-> None]]
Vehicle(loads, dbc, netmap, tests) ==
  [loads |-> loads, dbc |-> dbc, netmap |-> netmap, interfaces |-> Interfaces, tests |-> tests]
MCVehicles ==
  {Vehicle(TRUE, "ok", "ok", "p/tests"), Vehicle(TRUE, "ok", "none", "p/empty"),
   Vehicle(TRUE, "none", "ok", None), Vehicle(TRUE, "broken", "missing", "p/tests"),
   Vehicle(TRUE, "missing", "none", "p/tests"), Vehicle(FALSE, "none", "none", None)}

TestCommand(inputs, interface, check, report, format) ==
  [cmd |-> "test", inputs |-> inputs, interface |-> interface, check |-> check,
   report |-> report, format |-> format]
ReportCommand(output, format) ==
  [cmd |-> "report", input |-> "report.json", report |-> output, format |-> format]

MCCommands ==
  {[cmd |-> "init", force |-> f] : f \in BOOLEAN}
  \cup {[cmd |-> "simulate", duration |-> d] : d \in BOOLEAN}
  \cup {TestCommand(<<>>, None, FALSE, "report.json", "json"),
        TestCommand(<<>>, None, TRUE, "report.html", "html"),
        TestCommand(<<"tests">>, "eth", FALSE, "report.html", "xml"),
        TestCommand(<<"tests", "p/tests/b.yml", "tests">>, None, FALSE, None, "html"),
        TestCommand(<<"tests", "./p/tests/a.yaml", "tests">>, None, FALSE, None, "html"),
        TestCommand(<<"tests", "a.yaml">>, "bench", TRUE, None, "html"),
        TestCommand(<<"a.yaml">>, "eth", TRUE, None, "html"),
        TestCommand(<<"a.yaml">>, "bnch", FALSE, None, "html"),
        TestCommand(<<"a.yaml">>, "rest", FALSE, None, "html"),
        TestCommand(<<"a.yaml">>, "fw", FALSE, None, "html"),
        TestCommand(<<"a.yaml">>, "odd", FALSE, None, "html"),
        TestCommand(<<"nowhere">>, None, FALSE, None, "html"),
        TestCommand(<<"empty">>, None, FALSE, None, "html")}
  \cup {ReportCommand(None, "html"), ReportCommand(None, "json"), ReportCommand("report.html", "xml")}
=============================================================================
